---- MODULE Spec2Model ----
(***************************************************************************)
(* A model of the Monkey interpreter of return_to_monk: the lexer          *)
(* (src/src/lexer.rs), the Pratt parser (src/src/parser.rs) and the        *)
(* tree-walking evaluator (src/src/evaluator.rs) over the AST of           *)
(* src/src/ast.rs.                                                         *)
(*                                                                         *)
(* Rust values are modelled as TLA+ values.  An enum value is a record     *)
(* with a tag, Option<T> is a sequence of length 0 (None) or 1 (Some), a   *)
(* Vec is a sequence, a HashMap is a function on the set of its keys.      *)
(* The evaluator's Environment holds no interior mutability (Rc without    *)
(* RefCell), so an Environment is a plain value and Clone is the identity  *)
(* on values; what a Clone cannot see is a later `set` on the original.    *)
(***************************************************************************)
EXTENDS Integers, Sequences, FiniteSets, TLC

VARIABLES
    pc,               \* position of the host: which call comes next
    overflow_checks,  \* the build: TRUE = debug (overflow panics), FALSE = release (wraps)
    program,          \* evaluator host: the Program handed to eval
    env,              \* evaluator host: the caller-owned Environment
    result,           \* evaluator host: what the last eval returned
    trace,            \* evaluator host: the evaluation events of the last eval
    source,           \* lexer and parser hosts: the source text, a sequence of chars
    lexer,            \* lexer host: the Lexer
    tokens,           \* lexer host: the tokens next_token returned so far
    parser            \* parser host: the Parser, with its Lexer

vars == <<pc, overflow_checks, program, env, result, trace, source, lexer, tokens, parser>>

(***************************************************************************)
(* Bounds.                                                                 *)
(***************************************************************************)
\* width in bits of the model's isize (the code's isize has 64)
IntBits == 4

MinInt == -(2 ^ (IntBits - 1))
MaxInt == (2 ^ (IntBits - 1)) - 1
IntRange == MinInt .. MaxInt

(***************************************************************************)
(* Option, Result.                                                         *)
(***************************************************************************)
None == <<>>
Some(v) == <<v>>

Ok(v) == [tag |-> "Ok", value |-> v]
Err(m) == [tag |-> "Err", msg |-> m]
\* a Rust panic: the process aborts, no Result is returned
Panic(m) == [tag |-> "Panic", msg |-> m]

(***************************************************************************)
(* ast.rs: Program, Statement, Expression, Infix, Prefix.                  *)
(***************************************************************************)
Program(statements) == [statements |-> statements]

LetStatement(name, value) == [kind |-> "LetStatement", name |-> name, value |-> value]
ReturnStatement(value) == [kind |-> "ReturnStatement", return_value |-> value]
BlockStatement(statements) == [kind |-> "BlockStatement", statements |-> statements]
ExpressionStatement(expression) == [kind |-> "ExpressionStatement", expression |-> expression]

Identifier(name) == [kind |-> "Identifier", name |-> name]
IntegerLiteral(value) == [kind |-> "IntegerLiteral", value |-> value]
BooleanLiteral(value) == [kind |-> "BooleanLiteral", truth |-> value]
IfExpression(condition, consequence, alternative) ==
    [kind |-> "If", condition |-> condition, consequence |-> consequence,
     alternative |-> alternative]
FunctionLiteral(parameters, body) ==
    [kind |-> "FunctionLiteral", parameters |-> parameters, body |-> body]
CallExpression(function, arguments) ==
    [kind |-> "Call", function |-> function, arguments |-> arguments]
PrefixExpression(operator, right) ==
    [kind |-> "Prefix", operator |-> operator, right |-> right]
InfixExpression(operator, left, right) ==
    [kind |-> "Infix", operator |-> operator, left |-> left, right |-> right]

\* Display for Infix / Prefix: an operator is modelled by its rendering
InfixOperators == {"+", "-", "*", "/", "==", "!=", "<", ">"}
PrefixOperators == {"!", "-"}

(***************************************************************************)
(* evaluator.rs: Object, Function, Environment.                            *)
(***************************************************************************)
Integer(value) == [tag |-> "Integer", value |-> value]
Boolean(value) == [tag |-> "Boolean", truth |-> value]
ReturnValue(value) == [tag |-> "ReturnValue", inner |-> value]
Null == [tag |-> "Null"]
Function(parameters, body, fenv) ==
    [tag |-> "Function", parameters |-> parameters, body |-> body, env |-> fenv]

\* is_truthy with the integer zero taken as falsy
IsTruthyZeroIsFalsy(obj) ==
    CASE obj.tag = "Null" -> FALSE
      [] obj.tag = "Boolean" -> obj.truth
      [] obj.tag = "Integer" -> obj.value # 0
      [] OTHER -> TRUE

IsTruthy(obj) ==
    CASE obj.tag = "Null" -> FALSE
      [] obj.tag = "Boolean" -> obj.truth
      [] OTHER -> TRUE

RECURSIVE TypeOf(_)
TypeOf(obj) ==
    CASE obj.tag = "Integer" -> "INTEGER"
      [] obj.tag = "Boolean" -> "BOOLEAN"
      [] obj.tag = "ReturnValue" -> TypeOf(obj.inner)
      [] obj.tag = "Function" -> "FUNCTION"
      [] obj.tag = "Null" -> "NULL"

EmptyStore == [n \in {} |-> Null]

NewEnvironment == [store |-> EmptyStore, outer |-> None]

NewEnclosed(outer) == [store |-> EmptyStore, outer |-> Some(outer)]

RECURSIVE Get(_, _)
Get(e, name) ==
    IF name \in DOMAIN e.store
    THEN Some(e.store[name])
    ELSE IF e.outer # None THEN Get(e.outer[1], name) ELSE None

Set(e, name, value) ==
    [e EXCEPT !.store = [n \in (DOMAIN e.store) \cup {name} |->
                            IF n = name THEN value ELSE e.store[n]]]

(***************************************************************************)
(* isize arithmetic.  `+ - *` and unary `-` overflow: a panic when the     *)
(* build has overflow checks, two's-complement wrapping otherwise.  `/`    *)
(* panics on a zero divisor and on MIN / -1 in every build, and truncates  *)
(* toward zero.                                                            *)
(***************************************************************************)
Wrap(n) == ((n - MinInt) % (2 ^ IntBits)) + MinInt

Arith(n, what) ==
    IF n \in IntRange THEN Ok(Integer(n))
    ELSE IF overflow_checks THEN Panic([form |-> "overflow", what |-> what])
    ELSE Ok(Integer(Wrap(n)))

Abs(n) == IF n < 0 THEN -n ELSE n

\* isize `/` rounding toward minus infinity
QuotFloor(left, right) ==
    LET q == Abs(left) \div Abs(right)
    IN  IF (left < 0) # (right < 0)
        THEN IF Abs(left) % Abs(right) = 0 THEN -q ELSE -q - 1
        ELSE q

Quot(left, right) ==
    LET q == Abs(left) \div Abs(right)
    IN  IF (left < 0) # (right < 0) THEN -q ELSE q

Div(left, right) ==
    IF right = 0 THEN Panic([form |-> "divide by zero", what |-> "/"])
    ELSE IF left = MinInt /\ right = -1 THEN Panic([form |-> "overflow", what |-> "/"])
    ELSE Ok(Integer(Quot(left, right)))

(***************************************************************************)
(* evaluator.rs: operators on values.                                      *)
(***************************************************************************)
\* `!` with the integer zero taken as falsy
EvalBangZeroIsFalsy(right) ==
    CASE right.tag = "Boolean" -> Ok(Boolean(~right.truth))
      [] right.tag = "Null" -> Ok(Boolean(TRUE))
      [] right.tag = "Integer" /\ right.value = 0 -> Ok(Boolean(TRUE))
      [] OTHER -> Ok(Boolean(FALSE))

EvalBangOperatorExpression(right) ==
    CASE right.tag = "Boolean" -> Ok(Boolean(~right.truth))
      [] right.tag = "Null" -> Ok(Boolean(TRUE))
      [] OTHER -> Ok(Boolean(FALSE))

EvalMinusPrefixOperatorExpression(right) ==
    IF right.tag = "Integer"
    THEN Arith(-right.value, "neg")
    ELSE Err([form |-> "unknown operator", left |-> "", operator |-> "-",
              right |-> TypeOf(right)])

EvalPrefixExpression(operator, right) ==
    CASE operator = "!" -> EvalBangOperatorExpression(right)
      [] operator = "-" -> EvalMinusPrefixOperatorExpression(right)

EvalIntegerInfixExpression(operator, left, right) ==
    CASE operator = "+" -> Arith(left + right, "+")
      [] operator = "-" -> Arith(left - right, "-")
      [] operator = "*" -> Arith(left * right, "*")
      [] operator = "/" -> Div(left, right)
      [] operator = "<" -> Ok(Boolean(left < right))
      [] operator = ">" -> Ok(Boolean(left > right))
      [] operator = "==" -> Ok(Boolean(left = right))
      [] operator = "!=" -> Ok(Boolean(left # right))

EvalInfixExpression(operator, left, right) ==
    IF TypeOf(left) # TypeOf(right)
    THEN Err([form |-> "type mismatch", left |-> TypeOf(left), operator |-> operator,
              right |-> TypeOf(right)])
    ELSE CASE left.tag = "Integer" /\ right.tag = "Integer" ->
                EvalIntegerInfixExpression(operator, left.value, right.value)
           [] ~(left.tag = "Integer" /\ right.tag = "Integer") /\ operator = "==" ->
                Ok(Boolean(left = right))
           [] ~(left.tag = "Integer" /\ right.tag = "Integer") /\ operator = "!=" ->
                Ok(Boolean(left # right))
           [] OTHER ->
                Err([form |-> "unknown operator", left |-> TypeOf(left),
                     operator |-> operator, right |-> TypeOf(right)])

(***************************************************************************)
(* evaluator.rs: the recursive evaluation.  The code threads `env: &mut    *)
(* Environment`; the model threads a record s = [env, trace, calls] and    *)
(* returns it with the Result.  trace and calls are ghost state: the       *)
(* sequence of evaluation events and the number of function bodies         *)
(* entered so far.  c = [act, path] is a ghost position: act is the        *)
(* activation (0 = the program, k = the k-th function body entered), path  *)
(* the place of the node in the program or in the function body.           *)
(***************************************************************************)
Event(ev, c, kind) == [ev |-> ev, act |-> c.act, path |-> c.path, kind |-> kind]
Log(s, ev, c, kind) == [s EXCEPT !.trace = Append(@, Event(ev, c, kind))]
Child(c, i) == [c EXCEPT !.path = Append(@, i)]
Out(res, s) == [res |-> res, s |-> s]

\* eval_statements, lines 119-122: the program boundary strips the wrapper
StripAtProgram(obj) == obj.inner

\* apply_function, lines 243-246: the call boundary strips the wrapper
UnwrapReturnValue(evaluated) ==
    IF evaluated.tag = "ReturnValue" THEN evaluated.inner ELSE evaluated

\* a capture that takes the enclosing environment and loses the frame's own store
CaptureOuterOnly(e) == IF e.outer # None THEN e.outer[1] ELSE e

\* eval_expression, lines 201-205: the Function captures env.clone()
CaptureEnvironment(e) == e

RECURSIVE EvalStatementsFrom(_, _, _, _, _)
RECURSIVE EvalBlockFrom(_, _, _, _, _)
RECURSIVE EvalStatement(_, _, _)
RECURSIVE EvalExpression(_, _, _)
RECURSIVE EvalExpressionsFrom(_, _, _, _, _)
RECURSIVE ApplyFunction(_, _, _)

\* the loop of eval_statements from statement i on, acc the `result` so far
EvalStatementsFrom(statements, i, acc, s, c) ==
    LET \* lines 117-122: the loop body after statement i gave r
        Turn(r) ==
            IF r.res.tag # "Ok" THEN r
            ELSE IF r.res.value.tag = "ReturnValue"
                 THEN Out(Ok(StripAtProgram(r.res.value)), r.s)
                 ELSE EvalStatementsFrom(statements, i + 1, r.res.value, r.s, c)
    IN  IF i > Len(statements) THEN Out(Ok(acc), s)
        ELSE Turn(EvalStatement(statements[i], s, Child(c, i)))

EvalStatements(statements, s, c) == EvalStatementsFrom(statements, 1, Null, s, c)

\* the loop of eval_block_statement from statement i on
EvalBlockFrom(statements, i, acc, s, c) ==
    LET \* lines 135-140: the loop body after statement i gave r
        Turn(r) ==
            IF r.res.tag # "Ok" THEN r
            ELSE IF r.res.value.tag = "ReturnValue"
                 THEN r
                 ELSE EvalBlockFrom(statements, i + 1, r.res.value, r.s, c)
    IN  IF i > Len(statements) THEN Out(Ok(acc), s)
        ELSE Turn(EvalStatement(statements[i], s, Child(c, i)))


\* the block gave r in its own scope; what follows goes on in the environment of s
DropScope(r, s) == Out(r.res, [r.s EXCEPT !.env = s.env])

\* eval_block_statement on an environment of its own, enclosed in the caller's
\* and dropped at the end of the block
EvalBlockStatementInOwnScope(statements, s, c) ==
    DropScope(EvalBlockFrom(statements, 1, Null, [s EXCEPT !.env = NewEnclosed(s.env)], c), s)

EvalBlockStatement(statements, s, c) == EvalBlockFrom(statements, 1, Null, s, c)

EvalStatement(statement, s, c) ==
    LET \* lines 152-154: `env.set(name, value)` once the value r is there
        BindLet(name, r) ==
            IF r.res.tag # "Ok" THEN r
            ELSE Out(r.res, [r.s EXCEPT !.env = Set(@, name, r.res.value)])
        \* lines 159-160: the value r of a Return is wrapped
        WrapReturn(r) ==
            IF r.res.tag # "Ok" THEN r
            ELSE Out(Ok(ReturnValue(r.res.value)),
                     Log(r.s, "return", c, "ReturnStatement"))
    IN  CASE statement.kind = "LetStatement" ->
                BindLet(statement.name,
                        EvalExpression(statement.value,
                                       Log(s, "stmt", c, statement.kind), Child(c, 1)))
          [] statement.kind = "ExpressionStatement" ->
                EvalExpression(statement.expression, Log(s, "stmt", c, statement.kind),
                               Child(c, 1))
          [] statement.kind = "BlockStatement" ->
                EvalBlockStatement(statement.statements,
                                   Log(s, "stmt", c, statement.kind), c)
          [] statement.kind = "ReturnStatement" ->
                WrapReturn(EvalExpression(statement.return_value,
                                          Log(s, "stmt", c, statement.kind), Child(c, 1)))

\* the loop of eval_expressions taken from the last argument to the first
EvalExpressionsRightToLeft(expressions, i, acc, s, c) ==
    LET Turn(r) ==
            IF r.res.tag # "Ok" THEN [res |-> r.res, s |-> r.s, values |-> acc]
            ELSE EvalExpressionsFrom(expressions, i + 1, <<r.res.value>> \o acc, r.s, c)
        Last(j) == Turn(EvalExpression(expressions[j], s, Child(c, j)))
    IN  IF i > Len(expressions) THEN [res |-> Ok(Null), s |-> s, values |-> acc]
        ELSE Last(Len(expressions) + 1 - i)

\* the loop of eval_expressions from argument i on
EvalExpressionsFrom(expressions, i, acc, s, c) ==
    LET \* lines 226-227: the loop body after argument i gave r
        Turn(r) ==
            IF r.res.tag # "Ok" THEN [res |-> r.res, s |-> r.s, values |-> acc]
            ELSE EvalExpressionsFrom(expressions, i + 1, Append(acc, r.res.value), r.s, c)
    IN  IF i > Len(expressions) THEN [res |-> Ok(Null), s |-> s, values |-> acc]
        ELSE Turn(EvalExpression(expressions[i], s, Child(c, i)))

EvalExpressions(expressions, s, c) == EvalExpressionsFrom(expressions, 1, <<>>, s, c)

\* the zip of apply_function, lines 238-240
RECURSIVE BindParameters(_, _, _, _)
BindParameters(parameters, args, i, e) ==
    IF i > Len(parameters) \/ i > Len(args) THEN e
    ELSE BindParameters(parameters, args, i + 1, Set(e, parameters[i], args[i]))

\* the ghost position of the function body entered next
Body(s) == [act |-> s.calls + 1, path |-> <<>>]

\* the state the body starts in: extended_env, and the body entered
Enter(extended_env, s) ==
    [env |-> extended_env,
     trace |-> Append(s.trace, Event("call", Body(s), "Call")),
     calls |-> s.calls + 1]

\* apply_function on the caller's own environment: the caller goes on in the
\* environment the body left
LeaveInBodyEnvironment(r, s) ==
    IF r.res.tag # "Ok"
    THEN Out(r.res, [env |-> r.s.env, trace |-> r.s.trace, calls |-> r.s.calls])
    ELSE Out(Ok(UnwrapReturnValue(r.res.value)),
             [env |-> r.s.env, trace |-> r.s.trace, calls |-> r.s.calls])

\* apply_function, lines 242-246: the body gave r, the caller goes on in its own env
Leave(r, s) ==
    IF r.res.tag # "Ok"
    THEN Out(r.res, [env |-> s.env, trace |-> r.s.trace, calls |-> r.s.calls])
    ELSE Out(Ok(UnwrapReturnValue(r.res.value)),
             [env |-> s.env, trace |-> r.s.trace, calls |-> r.s.calls])

\* apply_function with the caller's environment as the outer one (dynamic scope)
ApplyFunctionInCallerScope(func, args, s) ==
    IF func.tag = "Function"
    THEN Leave(EvalStatement(func.body,
                             Enter(BindParameters(func.parameters, args, 1,
                                                  NewEnclosed(s.env)), s),
                             Body(s)), s)
    ELSE Out(Err([form |-> "not a function", obj |-> func]), s)

ApplyFunction(func, args, s) ==
    IF func.tag = "Function"
    THEN Leave(EvalStatement(func.body,
                             Enter(BindParameters(func.parameters, args, 1,
                                                  NewEnclosed(func.env)), s),
                             Body(s)), s)
    ELSE Out(Err([form |-> "not a function", obj |-> func]), s)

EvalExpression(expression, s, c) ==
    LET \* lines 173-174: the operator applied to the operand's value r
        PrefixOf(r) ==
            IF r.res.tag # "Ok" THEN r
            ELSE Out(EvalPrefixExpression(expression.operator, r.res.value), r.s)
        \* lines 178-179: the operator applied to the two values
        InfixOf(left, r) ==
            IF r.res.tag # "Ok" THEN r
            ELSE Out(EvalInfixExpression(expression.operator, left, r.res.value), r.s)
        \* lines 177-179: left gave l, then right is evaluated
        InfixRight(l) ==
            IF l.res.tag # "Ok" THEN l
            ELSE InfixOf(l.res.value, EvalExpression(expression.right, l.s, Child(c, 2)))
        \* lines 186-193: the condition gave k, a branch is chosen
        Branch(k) ==
            IF k.res.tag # "Ok" THEN k
            ELSE IF IsTruthy(k.res.value)
                 THEN EvalStatement(expression.consequence, k.s, Child(c, 2))
                 ELSE IF expression.alternative # None
                      THEN EvalStatement(expression.alternative[1], k.s, Child(c, 3))
                      ELSE Out(Ok(Null), k.s)
        \* lines 195-198: the identifier is looked up
        Lookup(found, t) ==
            IF found # None THEN Out(Ok(found[1]), t)
            ELSE Out(Err([form |-> "identifier not found", name |-> expression.name]), t)
        \* lines 213-214: the arguments gave a, the function is applied
        CallWith(func, a) ==
            IF a.res.tag # "Ok" THEN Out(a.res, a.s)
            ELSE ApplyFunction(func, a.values, a.s)
        \* lines 212-214: the callee gave f, then the arguments are evaluated
        CallArguments(f) ==
            IF f.res.tag # "Ok" THEN f
            ELSE CallWith(f.res.value, EvalExpressions(expression.arguments, f.s, c))
    IN  CASE expression.kind = "IntegerLiteral" ->
                Out(Ok(Integer(expression.value)), Log(s, "expr", c, expression.kind))
          [] expression.kind = "BooleanLiteral" ->
                Out(Ok(Boolean(expression.truth)), Log(s, "expr", c, expression.kind))
          [] expression.kind = "Prefix" ->
                PrefixOf(EvalExpression(expression.right,
                                        Log(s, "expr", c, expression.kind), Child(c, 1)))
          [] expression.kind = "Infix" ->
                InfixRight(EvalExpression(expression.left,
                                          Log(s, "expr", c, expression.kind), Child(c, 1)))
          [] expression.kind = "If" ->
                Branch(EvalExpression(expression.condition,
                                      Log(s, "expr", c, expression.kind), Child(c, 1)))
          [] expression.kind = "Identifier" ->
                Lookup(Get(s.env, expression.name), Log(s, "expr", c, expression.kind))
          [] expression.kind = "FunctionLiteral" ->
                Out(Ok(Function(expression.parameters, expression.body,
                                CaptureEnvironment(s.env))),
                    Log(s, "expr", c, expression.kind))
          [] expression.kind = "Call" ->
                CallArguments(EvalExpression(expression.function,
                                             Log(s, "expr", c, expression.kind),
                                             Child(c, 0)))

\* eval: the entry point the host calls
Eval(prog, e) ==
    EvalStatements(prog.statements, [env |-> e, trace |-> <<>>, calls |-> 0],
                   [act |-> 0, path |-> <<>>])

(***************************************************************************)
(* The programs the host hands to eval.  They are written as the AST the   *)
(* source text stands for (ast.rs); S* and X* abbreviate the constructors. *)
(***************************************************************************)
XInt(n) == IntegerLiteral(n)
XBool(b) == BooleanLiteral(b)
XId(name) == Identifier(name)
XFn(parameters, statements) == FunctionLiteral(parameters, BlockStatement(statements))
XCall(function, arguments) == CallExpression(function, arguments)
XIf(condition, statements) == IfExpression(condition, BlockStatement(statements), None)
XIfElse(condition, statements, otherwise) ==
    IfExpression(condition, BlockStatement(statements), Some(BlockStatement(otherwise)))
SLet(name, value) == LetStatement(name, value)
SRet(value) == ReturnStatement(value)
SExp(expression) == ExpressionStatement(expression)

\* integers at and around the bounds of isize
SampleInts == {MinInt, -1, 0, 1, 2, MaxInt}

\* `if (true) { return v; }`: an expression whose value is the wrapper
ReturningIf(v) == XIf(XBool(TRUE), <<SRet(XInt(v))>>)

\* evaluator.rs tests: test_eval_integer_expression .. test_error_handling
TestPrograms ==
    { Program(<<SExp(XInt(5))>>),
      Program(<<SExp(PrefixExpression("-", XInt(5)))>>),
      Program(<<SExp(InfixExpression("+", InfixExpression("*", XInt(1), XInt(2)), XInt(3)))>>),
      Program(<<SExp(PrefixExpression("!", XBool(TRUE)))>>),
      Program(<<SExp(PrefixExpression("!", PrefixExpression("!", XInt(5))))>>),
      Program(<<SExp(XIf(XBool(TRUE), <<SExp(XInt(1))>>))>>),
      Program(<<SExp(XIf(XBool(FALSE), <<SExp(XInt(1))>>))>>),
      Program(<<SExp(XIf(XInt(1), <<SExp(XInt(1))>>))>>),
      Program(<<SExp(XIfElse(InfixExpression(">", XInt(1), XInt(2)),
                             <<SExp(XInt(1))>>, <<SExp(XInt(2))>>))>>),
      Program(<<SRet(XInt(1))>>),
      Program(<<SRet(XInt(1)), SExp(XInt(2))>>),
      Program(<<SExp(XInt(3)), SRet(InfixExpression("*", XInt(2), XInt(3))), SExp(XInt(3))>>),
      Program(<<SExp(XIf(InfixExpression(">", XInt(2), XInt(1)),
                         <<SExp(XIf(InfixExpression(">", XInt(2), XInt(1)),
                                    <<SRet(XInt(2))>>)),
                           SRet(XInt(1))>>))>>),
      Program(<<SLet("a", XInt(5)), SExp(XId("a"))>>),
      Program(<<SLet("a", XInt(1)), SLet("b", XId("a")),
                SLet("c", InfixExpression("+", InfixExpression("+", XId("a"), XId("b")), XInt(1))),
                SExp(XId("c"))>>),
      Program(<<SExp(XFn(<<"x">>, <<SExp(InfixExpression("+", XId("x"), XInt(2)))>>))>>),
      Program(<<SLet("identity", XFn(<<"x">>, <<SExp(XId("x"))>>)),
                SExp(XCall(XId("identity"), <<XInt(5)>>))>>),
      Program(<<SLet("identity", XFn(<<"x">>, <<SRet(XId("x"))>>)),
                SExp(XCall(XId("identity"), <<XInt(5)>>))>>),
      Program(<<SLet("add", XFn(<<"x", "y">>, <<SExp(InfixExpression("+", XId("x"), XId("y")))>>)),
                SExp(XCall(XId("add"), <<InfixExpression("+", XInt(1), XInt(1)),
                                         XCall(XId("add"), <<XInt(1), XInt(1)>>)>>))>>),
      Program(<<SExp(XCall(XFn(<<"x">>, <<SExp(XId("x"))>>), <<XInt(5)>>))>>),
      Program(<<SExp(InfixExpression("+", XInt(5), XBool(TRUE))), SExp(XInt(5))>>),
      Program(<<SExp(PrefixExpression("-", XBool(TRUE)))>>),
      Program(<<SExp(XInt(5)), SExp(InfixExpression("+", XBool(TRUE), XBool(FALSE))), SExp(XInt(5))>>),
      Program(<<SExp(XIf(InfixExpression(">", XInt(2), XInt(1)),
                         <<SExp(XIf(InfixExpression(">", XInt(2), XInt(1)),
                                    <<SRet(InfixExpression("+", XBool(TRUE), XBool(FALSE)))>>)),
                           SRet(XInt(1))>>))>>),
      Program(<<SExp(XId("foobar"))>>),
      Program(<<>>) }

\* `a op b` for every operator and integers at and around the bounds
ArithmeticPrograms ==
    { Program(<<SExp(InfixExpression(op, XInt(a), XInt(b)))>>) :
        op \in InfixOperators, a \in SampleInts, b \in SampleInts }
    \cup { Program(<<SExp(PrefixExpression(op, XInt(a)))>>) :
        op \in PrefixOperators, a \in IntRange }

\* operands of every type tag, and an unbound name
Operands ==
    { XInt(1), XBool(TRUE), XBool(FALSE), XFn(<<>>, <<>>), XIf(XBool(FALSE), <<>>),
      ReturningIf(1), XId("foobar"), XCall(XInt(1), <<>>) }

OperatorPrograms ==
    { Program(<<SExp(InfixExpression(op, l, r))>>) :
        op \in InfixOperators, l \in Operands, r \in Operands }
    \cup { Program(<<SExp(PrefixExpression(op, r))>>) : op \in PrefixOperators, r \in Operands }

\* bound on the number of statements of a generated program
MaxStatements == 3

\* statements that bind, return, call, and carry a `return` inside an expression
StatementPool ==
    { SExp(XInt(1)),
      SRet(XInt(2)),
      SLet("x", XInt(3)),
      SExp(XId("x")),
      SExp(ReturningIf(4)),
      SRet(ReturningIf(5)),
      SLet("x", ReturningIf(6)),
      SExp(PrefixExpression("!", ReturningIf(7))),
      SExp(XCall(XFn(<<"x">>, <<SRet(XId("x"))>>), <<ReturningIf(0)>>)),
      SExp(XCall(XFn(<<>>, <<SRet(ReturningIf(-1))>>), <<>>)) }

GeneratedPrograms ==
    { Program(ss) : ss \in UNION { [1 .. n -> StatementPool] : n \in 0 .. MaxStatements } }

\* `let f = fn() { y }; let y = v; f()`
LateBindingProgram(v) ==
    Program(<<SLet("f", XFn(<<>>, <<SExp(XId("y"))>>)),
              SLet("y", XInt(v)),
              SExp(XCall(XId("f"), <<>>))>>)

\* `let f = fn(n) { if (n == 0) { v } else { f(n - 1) } }; f(1)`
SelfCallProgram(v) ==
    Program(<<SLet("f", XFn(<<"n">>,
                  <<SExp(XIfElse(InfixExpression("==", XId("n"), XInt(0)),
                                 <<SExp(XInt(v))>>,
                                 <<SExp(XCall(XId("f"),
                                        <<InfixExpression("-", XId("n"), XInt(1))>>))>>))>>)),
              SExp(XCall(XId("f"), <<XInt(1)>>))>>)

\* `let g = fn() { z }; let h = fn() { let z = w; g() }; h()`
CallerLocalProgram(w) ==
    Program(<<SLet("g", XFn(<<>>, <<SExp(XId("z"))>>)),
              SLet("h", XFn(<<>>, <<SLet("z", XInt(w)), SExp(XCall(XId("g"), <<>>))>>)),
              SExp(XCall(XId("h"), <<>>))>>)

\* `let g = fn() { z }; let h = fn(z) { g() }; h(w)`
CallerParameterProgram(w) ==
    Program(<<SLet("g", XFn(<<>>, <<SExp(XId("z"))>>)),
              SLet("h", XFn(<<"z">>, <<SExp(XCall(XId("g"), <<>>))>>)),
              SExp(XCall(XId("h"), <<XInt(w)>>))>>)

\* `let z = v; let g = fn() { z }; let h = fn() { let z = w; g() }; h()`
DefinitionScopeProgram(v, w) ==
    Program(<<SLet("z", XInt(v)),
              SLet("g", XFn(<<>>, <<SExp(XId("z"))>>)),
              SLet("h", XFn(<<>>, <<SLet("z", XInt(w)), SExp(XCall(XId("g"), <<>>))>>)),
              SExp(XCall(XId("h"), <<>>))>>)

\* `let z = v; let g = fn(z) { z }; g(w)`
ParameterShadowProgram(v, w) ==
    Program(<<SLet("z", XInt(v)),
              SLet("g", XFn(<<"z">>, <<SExp(XId("z"))>>)),
              SExp(XCall(XId("g"), <<XInt(w)>>))>>)

\* `let z = v; let g = fn() { let z = w; z }; g()`
BodyLetShadowProgram(v, w) ==
    Program(<<SLet("z", XInt(v)),
              SLet("g", XFn(<<>>, <<SLet("z", XInt(w)), SExp(XId("z"))>>)),
              SExp(XCall(XId("g"), <<>>))>>)

NewAdder == XFn(<<"x">>, <<SExp(XFn(<<"y">>, <<SExp(InfixExpression("+", XId("x"), XId("y")))>>))>>)

\* `let newAdder = fn(x) { fn(y) { x + y } }; let addTwo = newAdder(a); addTwo(b)`
AdderProgram(a, b) ==
    Program(<<SLet("newAdder", NewAdder),
              SLet("addTwo", XCall(XId("newAdder"), <<XInt(a)>>)),
              SExp(XCall(XId("addTwo"), <<XInt(b)>>))>>)

\* two adders, called in the order first, last
TwoAddersProgram(a1, a2, b, first, last) ==
    Program(<<SLet("newAdder", NewAdder),
              SLet("p", XCall(XId("newAdder"), <<XInt(a1)>>)),
              SLet("q", XCall(XId("newAdder"), <<XInt(a2)>>)),
              SExp(XCall(XId(first), <<XInt(b)>>)),
              SExp(XCall(XId(last), <<XInt(b)>>))>>)

\* function bodies that execute a `return` of the parameter x
ReturningBodies ==
    { <<SRet(XId("x"))>>,
      <<SExp(XInt(1)), SRet(XId("x")), SExp(XId("foobar"))>>,
      <<SExp(XIf(XBool(TRUE), <<SRet(XId("x"))>>)), SRet(XInt(1))>>,
      <<SRet(XIf(XBool(TRUE), <<SRet(XId("x"))>>))>> }

\* `let f = fn(x) { body }; let r = f(v); 7`
CallThenSevenProgram(body, v) ==
    Program(<<SLet("f", XFn(<<"x">>, body)),
              SLet("r", XCall(XId("f"), <<XInt(v)>>)),
              SExp(XInt(7))>>)

\* `let f = fn(x) { x }; f(a, b)`: more arguments than parameters
ExtraArgumentProgram(a, b) ==
    Program(<<SLet("f", XFn(<<"x">>, <<SExp(XId("x"))>>)),
              SExp(XCall(XId("f"), <<XInt(a), XInt(b)>>))>>)

\* `let f = fn(x, y) { x }; f(a)`: the missing parameter is not referenced
MissingUnusedProgram(a) ==
    Program(<<SLet("f", XFn(<<"x", "y">>, <<SExp(XId("x"))>>)),
              SExp(XCall(XId("f"), <<XInt(a)>>))>>)

\* `let f = fn(x, y) { y }; f(a)`: the missing parameter is referenced
MissingArgumentProgram(a) ==
    Program(<<SLet("f", XFn(<<"x", "y">>, <<SExp(XId("y"))>>)),
              SExp(XCall(XId("f"), <<XInt(a)>>))>>)

\* `let y = v; let f = fn(x, y) { y }; f(a)`: the same, y bound where f is defined
MissingShadowingProgram(v, a) ==
    Program(<<SLet("y", XInt(v)),
              SLet("f", XFn(<<"x", "y">>, <<SExp(XId("y"))>>)),
              SExp(XCall(XId("f"), <<XInt(a)>>))>>)

ArityPrograms ==
    { ExtraArgumentProgram(a, b) : a \in SampleInts, b \in SampleInts }
    \cup { MissingUnusedProgram(a) : a \in SampleInts }
    \cup { MissingArgumentProgram(a) : a \in SampleInts }
    \cup { MissingShadowingProgram(v, a) : v \in SampleInts, a \in SampleInts }

\* callees and arguments that are unbound names, a callee that is no function
CallOrderPrograms ==
    { Program(<<SExp(XCall(XInt(5), <<XId("u")>>))>>),
      Program(<<SExp(XCall(XInt(5), <<XInt(1)>>))>>),
      Program(<<SExp(XCall(XInt(5), <<XInt(1), XId("u"), XId("w")>>))>>),
      Program(<<SExp(XCall(XId("u"), <<XId("w")>>))>>),
      Program(<<SExp(XCall(XFn(<<"a", "b">>, <<SExp(XId("a"))>>), <<XId("u"), XId("w")>>))>>),
      Program(<<SExp(XCall(XFn(<<"a", "b">>, <<SExp(XId("b"))>>),
                           <<InfixExpression("+", XInt(1), XInt(1)),
                             XCall(XFn(<<>>, <<SExp(XInt(2))>>), <<>>)>>))>>) }

ClosurePrograms ==
    { LateBindingProgram(v) : v \in SampleInts }
    \cup { SelfCallProgram(v) : v \in SampleInts }
    \cup { CallerLocalProgram(w) : w \in SampleInts }
    \cup { CallerParameterProgram(w) : w \in SampleInts }
    \cup { DefinitionScopeProgram(v, w) : v \in SampleInts, w \in SampleInts }
    \cup { ParameterShadowProgram(v, w) : v \in SampleInts, w \in SampleInts }
    \cup { BodyLetShadowProgram(v, w) : v \in SampleInts, w \in SampleInts }
    \cup { AdderProgram(a, b) : a \in IntRange, b \in IntRange }
    \cup { TwoAddersProgram(a1, a2, b, f, l) :
             a1 \in SampleInts, a2 \in SampleInts, b \in {-1, 2},
             f \in {"p", "q"}, l \in {"p", "q"} }
    \cup { CallThenSevenProgram(body, v) : body \in ReturningBodies, v \in SampleInts }

\* operands of `!`: every variant of Object, the integers around zero and the
\* bounds, and the names the earlier lines bind
BangOperands ==
    Operands \cup { XInt(n) : n \in SampleInts } \cup { XId("x"), XId("f") }

\* `!e` and `!!e`
BangPrograms ==
    { Program(<<SExp(PrefixExpression("!", e))>>) : e \in BangOperands }
    \cup { Program(<<SExp(PrefixExpression("!", PrefixExpression("!", e)))>>) :
             e \in BangOperands }

\* `let g = fn(n) { if (n) { 1 } else { 2 } }; g(a); g(b)`
IfInFunctionProgram(a, b) ==
    Program(<<SLet("g", XFn(<<"n">>, <<SExp(XIfElse(XId("n"), <<SExp(XInt(1))>>,
                                                      <<SExp(XInt(2))>>))>>)),
              SExp(XCall(XId("g"), <<a>>)),
              SExp(XCall(XId("g"), <<b>>))>>)

\* an if-expression on every operand, with and without alternative, with
\* empty blocks, with an if-expression in a block, and in a function called twice
IfPrograms ==
    { Program(<<SExp(XIf(k, <<SExp(XInt(1))>>))>>) : k \in BangOperands }
    \cup { Program(<<SExp(XIfElse(k, <<SExp(XInt(1))>>, <<SExp(XInt(2))>>))>>) :
             k \in BangOperands }
    \cup { Program(<<SExp(XIf(k, <<>>))>>) : k \in BangOperands }
    \cup { Program(<<SExp(XIfElse(k, <<>>, <<>>))>>) : k \in BangOperands }
    \cup { Program(<<SExp(XIfElse(k, <<SExp(XIf(j, <<SExp(XInt(1))>>))>>,
                                  <<SExp(XIfElse(j, <<SExp(XInt(1))>>, <<SExp(XInt(2))>>))>>))>>) :
             k \in {XInt(0), XBool(FALSE)}, j \in {XInt(0), XBool(FALSE)} }
    \cup { IfInFunctionProgram(a, b) :
             a \in {XInt(0), XBool(FALSE)}, b \in {XBool(TRUE), XIf(XBool(FALSE), <<>>)} }

\* integer operands of a nested arithmetic expression: literals, and `-7` as
\* the parser gives it
ArithmeticLeaves == { XInt(-7), XInt(0), XInt(2), XInt(3), PrefixExpression("-", XInt(7)),
                      XInt(7) }

ArithmeticOperators == {"+", "-", "*", "/"}

\* `l op r` on two leaves
ArithmeticPairs ==
    { InfixExpression(op, l, r) :
        op \in ArithmeticOperators, l \in ArithmeticLeaves, r \in ArithmeticLeaves }

\* `(l op r) op' t`, `t op' (l op r)` and `-(l op r)`
NestedArithmeticPrograms ==
    { Program(<<SExp(InfixExpression(op, x, t))>>) :
        op \in ArithmeticOperators, x \in ArithmeticPairs, t \in ArithmeticLeaves }
    \cup { Program(<<SExp(InfixExpression(op, t, x))>>) :
        op \in ArithmeticOperators, x \in ArithmeticPairs, t \in ArithmeticLeaves }
    \cup { Program(<<SExp(PrefixExpression("-", x))>>) : x \in ArithmeticPairs }
    \cup { Program(<<SExp(x)>>) : x \in ArithmeticPairs }

\* a lookup of the name at the top level, and one in the body of a function
\* made and called by the line
LookupPrograms ==
    { Program(<<SExp(XId(n))>>) : n \in {"x", "y", "z", "f", "foobar", "u"} }
    \cup { Program(<<SExp(XCall(XFn(<<>>, <<SExp(XId(n))>>), <<>>))>>) :
             n \in {"x", "y", "z", "f", "foobar", "u"} }

\* `let x = v; let f = fn(a) { let x = x + 1; let b = 3; let a = 4; x }; f(9)`,
\* then the statements of rest
BodyBindsProgram(v, rest) ==
    Program(<<SLet("x", XInt(v)),
              SLet("f", XFn(<<"a">>, <<SLet("x", InfixExpression("+", XId("x"), XInt(1))),
                                        SLet("b", XInt(3)),
                                        SLet("a", XInt(4)),
                                        SExp(XId("x"))>>)),
              SExp(XCall(XId("f"), <<XInt(9)>>))>> \o rest)

\* a call whose body binds its parameter, a new name and a name of the captured
\* scope; after it the caller reads each of the names, or calls once more
BodyBindsPrograms ==
    { BodyBindsProgram(v, <<>>) : v \in {-1, 0, 2} }
    \cup { BodyBindsProgram(v, <<SExp(XId(n))>>) : v \in {-1, 0, 2}, n \in {"x", "a", "b"} }
    \cup { BodyBindsProgram(v, <<SExp(XCall(XId("f"), <<XInt(9)>>))>>) : v \in {-1, 0, 2} }


\* the statements a block holds: lets of a new name and of a name bound outside
BlockBodies ==
    { <<SLet("q", XInt(v))>> : v \in {-1, 0, 2} }
    \cup { <<SLet("x", XInt(v)), SLet("q", InfixExpression("+", XId("x"), XInt(1)))>> :
             v \in {-1, 0, 2} }

\* the statements after the if-expression: they read the names the block bound
StatementsAfter == { <<>>, <<SExp(XId("q"))>>, <<SExp(XId("x"))>> }

\* `if (true) { body }; rest`
InConsequence(body, rest) == Program(<<SExp(XIf(XBool(TRUE), body))>> \o rest)

\* `if (false) { 7 } else { body }; rest`
InAlternative(body, rest) ==
    Program(<<SExp(XIfElse(XBool(FALSE), <<SExp(XInt(7))>>, body))>> \o rest)

\* `if (true) { if (true) { body } }; rest`
InNestedBlock(body, rest) ==
    Program(<<SExp(XIf(XBool(TRUE), <<SExp(XIf(XBool(TRUE), body))>>))>> \o rest)

\* `if (false) { body }; rest`: the block is not executed
InBlockNotTaken(body, rest) == Program(<<SExp(XIf(XBool(FALSE), body))>> \o rest)

\* `fn() { if (true) { body }; rest }()`
InFunctionBody(body, rest) ==
    Program(<<SExp(XCall(XFn(<<>>, <<SExp(XIf(XBool(TRUE), body))>> \o rest), <<>>))>>)

\* lets inside the blocks of an if-expression, at the top level and in a body
BlockLetPrograms ==
    UNION { { InConsequence(b, r), InAlternative(b, r), InNestedBlock(b, r),
              InBlockNotTaken(b, r), InFunctionBody(b, r) } :
            b \in BlockBodies, r \in StatementsAfter }


\* statements that end in an error: an unbound name, alone, as the value of a
\* let, after a let inside a block, and inside a function body
FailingStatements ==
    { SExp(XId("nope")),
      SLet("x", XId("nope")),
      SLet("b", InfixExpression("+", XId("a"), XBool(TRUE))),
      SExp(XIf(XBool(TRUE), <<SLet("b", XId("a")), SExp(XId("nope")), SLet("c", XInt(1))>>)),
      SLet("b", XIf(XBool(TRUE), <<SLet("c", XId("a")), SExp(XId("nope"))>>)),
      SExp(XCall(XFn(<<>>, <<SLet("b", XInt(1)), SExp(XId("nope"))>>), <<>>)) }

\* `let a = v; let x = a;`, the failing statement, `let d = 1;`
FailingProgram(v, failing) ==
    Program(<<SLet("a", XInt(v)), SLet("x", XId("a")), failing, SLet("d", XInt(1))>>)

\* programs that bind, then fail, with a let left behind the failure
FailingPrograms ==
    { FailingProgram(v, failing) : v \in {-1, 0, 2}, failing \in FailingStatements }
    \cup { Program(<<failing>>) : failing \in FailingStatements }

\* the families of programs the host evaluates
ProgramFamilies ==
    <<TestPrograms, ArithmeticPrograms, OperatorPrograms, GeneratedPrograms, ClosurePrograms,
      ArityPrograms, CallOrderPrograms, BangPrograms, IfPrograms, NestedArithmeticPrograms, LookupPrograms, BodyBindsPrograms, BlockLetPrograms, FailingPrograms>>

\* lines a host evaluated before on the same Environment
EarlierLines ==
    { Program(<<SLet("x", XInt(1))>>),
      Program(<<SLet("z", XInt(2)), SLet("y", XInt(1))>>),
      Program(<<SLet("f", XFn(<<"x">>, <<SExp(XId("x"))>>)), SLet("foobar", XBool(TRUE))>>) }

(***************************************************************************)
(* The evaluator's host: it owns one Environment and calls eval on it.     *)
(***************************************************************************)
NoResult == [tag |-> "None"]

Init ==
    /\ pc = "start"
    /\ overflow_checks \in BOOLEAN
    /\ program = Program(<<>>)
    /\ env = NewEnvironment
    /\ result = NoResult
    /\ trace = <<>>
    /\ source = <<>>
    /\ lexer = None
    /\ tokens = <<>>
    /\ parser = None


\* a host that gives the Environment back as it was when eval ends in an error
ReturnedRolledBack(p, r, next) ==
    /\ program' = p
    /\ env' = IF r.res.tag = "Err" THEN env ELSE r.s.env
    /\ result' = r.res
    /\ trace' = r.s.trace
    /\ pc' = IF r.res.tag = "Panic" THEN "aborted" ELSE next
    /\ UNCHANGED <<overflow_checks, source, lexer, tokens, parser>>

\* the host takes the outcome r of eval; a panic ends the process
Returned(p, r, next) ==
    /\ program' = p
    /\ env' = r.s.env
    /\ result' = r.res
    /\ trace' = r.s.trace
    /\ pc' = IF r.res.tag = "Panic" THEN "aborted" ELSE next
    /\ UNCHANGED <<overflow_checks, source, lexer, tokens, parser>>

\* one call of eval(program, &mut env)
EvalCall(p, next) == Returned(p, Eval(p, env), next)

EvalEarlierLine ==
    /\ pc = "start"
    /\ \E p \in EarlierLines : EvalCall(p, "ready")

EvalProgram ==
    /\ pc \in {"start", "ready"}
    /\ \E i \in DOMAIN ProgramFamilies : \E p \in ProgramFamilies[i] : EvalCall(p, "done")

Next == EvalEarlierLine \/ EvalProgram

Spec == Init /\ [][Next]_vars

(***************************************************************************)
(* repl.rs: start_repl.  The loop holds no Environment: line 25 calls      *)
(* `eval(program)` with the program alone, so the Environment a line is    *)
(* evaluated on is none the loop keeps, and the next line starts on an     *)
(* empty one.  `env` is what the loop holds from one line to the next.     *)
(***************************************************************************)
ReplCall(p, next) == Returned(p, [Eval(p, NewEnvironment) EXCEPT !.s.env = env], next)

\* a line that binds names
ReplEarlierLine ==
    /\ pc = "start"
    /\ \E p \in EarlierLines : ReplCall(p, "ready")

\* a line after it, or a first line
ReplLine ==
    /\ pc \in {"start", "ready"}
    /\ \E i \in DOMAIN ProgramFamilies : \E p \in ProgramFamilies[i] : ReplCall(p, "done")

ReplNext == ReplEarlierLine \/ ReplLine

ReplSpec == Init /\ [][ReplNext]_vars

(***************************************************************************)
(* token.rs: Token.  A token is a record with its type; IDENT carries the  *)
(* name and INT the value.                                                 *)
(***************************************************************************)
Tok(type) == [type |-> type]
IDENT(name) == [type |-> "IDENT", name |-> name]
INT(value) == [type |-> "INT", value |-> value]

LookupIdent(ident) ==
    CASE ident = "fn" -> Tok("FUNCTION")
      [] ident = "let" -> Tok("LET")
      [] ident = "if" -> Tok("IF")
      [] ident = "else" -> Tok("ELSE")
      [] ident = "true" -> Tok("TRUE")
      [] ident = "false" -> Tok("FALSE")
      [] ident = "return" -> Tok("RETURN")
      [] OTHER -> IDENT(ident)

(***************************************************************************)
(* lexer.rs.  The input is a sequence of chars.  A char is written as a    *)
(* string: an ASCII char as itself, any other by its code point.  A Rust   *)
(* &str is UTF-8: len() and the slice indices count bytes, chars().nth()   *)
(* counts chars.                                                           *)
(***************************************************************************)
\* '\0'
NUL == "NUL"

\* chars outside ASCII, two bytes each in UTF-8: e-acute, no-break space
TwoByteChars == {"U+00E9", "U+00A0"}

ByteLen(ch) == IF ch \in TwoByteChars THEN 2 ELSE 1

\* the byte offset at which the k-th char (from 0) of input starts
RECURSIVE ByteOffset(_, _)
ByteOffset(input, k) ==
    IF k = 0 THEN 0 ELSE ByteOffset(input, k - 1) + ByteLen(input[k])

\* input.len()
StrLen(input) == ByteOffset(input, Len(input))

\* input.chars().nth(n)
CharsNth(input, n) == IF n < Len(input) THEN Some(input[n + 1]) ELSE None

\* input.is_char_boundary(i)
IsCharBoundary(input, i) == \E k \in 0 .. Len(input) : ByteOffset(input, k) = i

\* the char index at byte offset i, a char boundary
CharAt(input, i) == CHOOSE k \in 0 .. Len(input) : ByteOffset(input, k) = i

\* input[a..b]: the chars of the byte range, None when the index panics
Slice(input, a, b) ==
    IF a <= b /\ IsCharBoundary(input, a) /\ IsCharBoundary(input, b)
    THEN Some(SubSeq(input, CharAt(input, a) + 1, CharAt(input, b)))
    ELSE None

\* the String of a sequence of chars
RECURSIVE Text(_)
Text(chars) == IF chars = <<>> THEN "" ELSE Head(chars) \o Text(Tail(chars))

Letters ==
    {"a", "b", "c", "d", "e", "f", "g", "h", "i", "j", "k", "l", "m",
     "n", "o", "p", "q", "r", "s", "t", "u", "v", "w", "x", "y", "z",
     "A", "B", "C", "D", "E", "F", "G", "H", "I", "J", "K", "L", "M",
     "N", "O", "P", "Q", "R", "S", "T", "U", "V", "W", "X", "Y", "Z"}

DigitChars == <<"0", "1", "2", "3", "4", "5", "6", "7", "8", "9">>

Digits == {DigitChars[i] : i \in DOMAIN DigitChars}

IsLetter(ch) == ch \in Letters \/ ch = "_"

IsDigit(ch) == ch \in Digits

\* char::is_whitespace of the chars the model writes: space, tab, LF, CR, form
\* feed, vertical tab, no-break space (White_Space has more)
IsWhitespace(ch) == ch \in {" ", "\t", "\n", "\r", "\f", "U+000B", "U+00A0"}

DigitValue(ch) == (CHOOSE i \in DOMAIN DigitChars : DigitChars[i] = ch) - 1

RECURSIVE DecimalValue(_, _)
DecimalValue(chars, acc) ==
    IF chars = <<>> THEN acc
    ELSE DecimalValue(Tail(chars), 10 * acc + DigitValue(Head(chars)))

\* str::parse::<isize>(): an optional sign, then digits; None is the Err
FromStr(chars) ==
    LET signed == chars # <<>> /\ Head(chars) \in {"+", "-"}
        digits == IF signed THEN Tail(chars) ELSE chars
        n == IF signed /\ Head(chars) = "-" THEN -DecimalValue(digits, 0)
                                            ELSE DecimalValue(digits, 0)
    IN  IF digits = <<>> \/ (\E i \in DOMAIN digits : ~IsDigit(digits[i])) THEN None
        ELSE IF n \in IntRange THEN Some(n) ELSE None

\* the lexer after a panic; panic = "" while it runs
Panicked(l, message) == [l EXCEPT !.panic = message]

\* position and read_position are usize; past the end of the input the code
\* only compares read_position with input_length, and the model stops counting
\* at input_length + 1
ReadChar(l) ==
    IF l.panic # "" THEN l
    ELSE IF l.read_position >= l.input_length
         THEN [l EXCEPT !.ch = NUL,
                        !.position = l.read_position,
                        !.read_position = l.input_length + 1]
         ELSE IF CharsNth(l.input, l.read_position) = None
              THEN Panicked(l, "unwrap on None")
              ELSE [l EXCEPT !.ch = CharsNth(l.input, l.read_position)[1],
                             !.position = l.read_position,
                             !.read_position = l.read_position + 1]

\* None is the panic of the unwrap
PeekChar(l) ==
    IF l.read_position >= l.input_length THEN Some(NUL)
    ELSE CharsNth(l.input, l.read_position)

NewLexer(input) ==
    ReadChar([input |-> input, input_length |-> StrLen(input), position |-> 0,
              read_position |-> 0, ch |-> NUL, panic |-> ""])

RECURSIVE SkipWhitespace(_)
SkipWhitespace(l) ==
    IF l.panic = "" /\ IsWhitespace(l.ch) THEN SkipWhitespace(ReadChar(l)) ELSE l

\* the loop of read_identifier
RECURSIVE ReadLetters(_)
ReadLetters(l) ==
    IF l.panic = "" /\ IsLetter(l.ch) THEN ReadLetters(ReadChar(l)) ELSE l

\* the loop of read_digit
RECURSIVE ReadDigits(_)
ReadDigits(l) ==
    IF l.panic = "" /\ IsDigit(l.ch) THEN ReadDigits(ReadChar(l)) ELSE l

\* what next_token leaves: the lexer and the token it returns
Emit(l, token) == [l |-> l, token |-> token]

\* a panic returns no token
Abort(l) == Emit(l, Tok("EOF"))

ReadIdentifier(l) ==
    LET \* line 96: the slice from ident_start, and lookup_ident of next_token, line 77;
        \* r is the lexer after the loop
        SliceFrom(r, ident_start) ==
            IF r.panic # "" THEN Abort(r)
            ELSE IF Slice(r.input, ident_start, r.position) = None
                 THEN Abort(Panicked(r, "byte index is not a char boundary"))
                 ELSE Emit(r, LookupIdent(Text(Slice(r.input, ident_start, r.position)[1])))
    IN  SliceFrom(ReadLetters(l), l.position)

ReadDigit(l) ==
    LET \* line 105: the unwrap of the parsed slice
        Unwrapped(r, parsed) ==
            IF parsed = None THEN Abort(Panicked(r, "unwrap on ParseIntError"))
            ELSE Emit(r, INT(parsed[1]))
        \* line 105: the slice from digit_start, parsed; r is the lexer after the loop
        SliceFrom(r, digit_start) ==
            IF r.panic # "" THEN Abort(r)
            ELSE IF Slice(r.input, digit_start, r.position) = None
                 THEN Abort(Panicked(r, "byte index is not a char boundary"))
                 ELSE Unwrapped(r, FromStr(Slice(r.input, digit_start, r.position)[1]))
    IN  SliceFrom(ReadDigits(l), l.position)

\* next_token, lines 45-52 and 55-62: `=` or `!`, and `==` or `!=` by the peeked char
OneOrTwo(l, peeked, one, two) ==
    IF peeked = None
    THEN Abort(Panicked(l, "unwrap on None"))
    ELSE IF peeked[1] = "="
         THEN Emit(ReadChar(ReadChar(l)), Tok(two))
         ELSE Emit(ReadChar(l), Tok(one))

\* next_token, lines 53-72: the tokens of one char
SingleCharTokens ==
    [ch \in {"+", "-", "*", "/", "<", ">", ",", ";", "(", ")", "{", "}"} |->
        CASE ch = "+" -> "PLUS"
          [] ch = "-" -> "MINUS"
          [] ch = "*" -> "ASTERISK"
          [] ch = "/" -> "SLASH"
          [] ch = "<" -> "LT"
          [] ch = ">" -> "GT"
          [] ch = "," -> "COMMA"
          [] ch = ";" -> "SEMICOLON"
          [] ch = "(" -> "LPAREN"
          [] ch = ")" -> "RPAREN"
          [] ch = "{" -> "LBRACE"
          [] ch = "}" -> "RBRACE"]

\* next_token after skip_whitespace
Scan(l) ==
    IF l.panic # "" THEN Abort(l)
    ELSE CASE l.ch = "=" -> OneOrTwo(l, PeekChar(l), "ASSIGN", "EQ")
           [] l.ch = "!" -> OneOrTwo(l, PeekChar(l), "BANG", "NOT_EQ")
           [] l.ch \in DOMAIN SingleCharTokens ->
                Emit(ReadChar(l), Tok(SingleCharTokens[l.ch]))
           [] l.ch = NUL -> Emit(ReadChar(l), Tok("EOF"))
           [] IsLetter(l.ch) -> ReadIdentifier(l)
           [] IsDigit(l.ch) -> ReadDigit(l)
           [] OTHER -> Emit(ReadChar(l), Tok("ILLEGAL"))

NextToken(l) == Scan(SkipWhitespace(l))

(***************************************************************************)
(* parser.rs.  The parse functions take `&mut self`; the model threads the *)
(* Parser p and returns it with the Option the function returns.  A panic  *)
(* of the lexer unwinds the parser: the model sets both tokens to EOF and  *)
(* lets the parse functions run out without effect.  hung is ghost state:  *)
(* it is set when a loop of the parser is entered whose body leaves the    *)
(* Parser as it is, so that the loop never ends.                           *)
(***************************************************************************)
LOWEST == 0
EQUALS == 1
LESSGREATER == 2
SUM == 3
PRODUCT == 4
PREFIX == 5
CALL == 6

\* a parse function's outcome: the parser after it, and the Option it returns
Parsed(p, v) == [p |-> p, v |-> v]

\* the parser no longer runs: the lexer panicked, or a loop never ends
Stopped(p) == p.lexer.panic # "" \/ p.hung

\* Parser::next_token with r the outcome of lexer.next_token()
TakeToken(p, r) ==
    IF r.l.panic # ""
    THEN [p EXCEPT !.lexer = r.l, !.current_token = Tok("EOF"), !.peek_token = Tok("EOF")]
    ELSE [p EXCEPT !.lexer = r.l, !.current_token = p.peek_token, !.peek_token = r.token]

\* Parser::next_token
ParserNextToken(p) == IF Stopped(p) THEN p ELSE TakeToken(p, NextToken(p.lexer))

NewParser(l) ==
    ParserNextToken(ParserNextToken(
        [lexer |-> l, current_token |-> Tok("EOF"), peek_token |-> Tok("EOF"),
         errors |-> <<>>, hung |-> FALSE]))

PushError(p, message) ==
    IF Stopped(p) THEN p ELSE [p EXCEPT !.errors = Append(@, message)]

PeekError(p, token) ==
    PushError(p, [form |-> "expected next token", expected |-> token,
                  got |-> p.peek_token])

\* expect_peek: the parser after it, and the bool it returns
ExpectPeek(p, token) ==
    IF p.peek_token = token
    THEN [p |-> ParserNextToken(p), ok |-> TRUE]
    ELSE [p |-> PeekError(p, token), ok |-> FALSE]

TokenPrecedence(token) ==
    CASE token.type \in {"EQ", "NOT_EQ"} -> EQUALS
      [] token.type \in {"LT", "GT"} -> LESSGREATER
      [] token.type \in {"PLUS", "MINUS"} -> SUM
      [] token.type \in {"ASTERISK", "SLASH"} -> PRODUCT
      [] token.type = "LPAREN" -> CALL
      [] OTHER -> LOWEST

CurrentPrecedence(p) == TokenPrecedence(p.current_token)

PeekPrecedence(p) == TokenPrecedence(p.peek_token)

\* the tokens prefix_parse_fns has a function for
PrefixParseFns ==
    {"IDENT", "INT", "LPAREN", "IF", "FUNCTION", "TRUE", "FALSE", "BANG", "MINUS"}

\* the tokens infix_parse_fns has a function for
InfixParseFns ==
    {"PLUS", "MINUS", "ASTERISK", "SLASH", "EQ", "NOT_EQ", "LT", "GT", "LPAREN"}

\* parse_infix, lines 334-344, and parse_prefix, lines 317-321: the operator of a token
OperatorOf(token) ==
    CASE token.type = "PLUS" -> "+"
      [] token.type = "MINUS" -> "-"
      [] token.type = "ASTERISK" -> "*"
      [] token.type = "SLASH" -> "/"
      [] token.type = "EQ" -> "=="
      [] token.type = "NOT_EQ" -> "!="
      [] token.type = "LT" -> "<"
      [] token.type = "GT" -> ">"
      [] token.type = "BANG" -> "!"

RECURSIVE ParseStatement(_)
RECURSIVE ParseExpression(_, _)
RECURSIVE ParseBlockStatement(_)
RECURSIVE SkipToSemicolon(_)
RECURSIVE BlockLoop(_, _)
RECURSIVE InfixLoop(_, _)
RECURSIVE ParametersLoop(_, _)
RECURSIVE ArgumentsLoop(_, _)

\* parse_let_statement, lines 104-106, and parse_return_statement, lines 112-114:
\* `while !current_token_is(SEMICOLON) { next_token() }`
SkipToSemicolon(p) ==
    IF Stopped(p) \/ p.current_token = Tok("SEMICOLON") THEN p
    ELSE IF TakeToken(p, NextToken(p.lexer)) = p THEN [p EXCEPT !.hung = TRUE]
    ELSE SkipToSemicolon(ParserNextToken(p))

ParseLetStatement(p) ==
    LET \* lines 101-107, e the outcome of expect_peek(ASSIGN)
        AfterAssign(name, e) ==
            IF ~e.ok THEN Parsed(e.p, None)
            ELSE Parsed(SkipToSemicolon(e.p), Some(LetStatement(name, None)))
    IN  IF p.peek_token.type # "IDENT" THEN Parsed(p, None)
        ELSE AfterAssign(p.peek_token.name, ExpectPeek(ParserNextToken(p), Tok("ASSIGN")))

ParseReturnStatement(p) ==
    Parsed(SkipToSemicolon(ParserNextToken(p)), Some(ReturnStatement(None)))

\* parse_block_statement, lines 122-128: the while loop
BlockLoop(p, statements) ==
    LET \* lines 123-126: the statement r.v is pushed if there is one
        Push(r) == BlockLoop(ParserNextToken(r.p), statements \o r.v)
    IN  IF Stopped(p) \/ p.current_token = Tok("RBRACE") \/ p.current_token = Tok("EOF")
        THEN Parsed(p, Some(BlockStatement(statements)))
        ELSE Push(ParseStatement(p))

\* parse_block_statement that gives the statement itself for a block of one
ParseBlockStatementOrStatement(p) ==
    LET Unwrapped(r) ==
            IF r.v # None /\ Len(r.v[1].statements) = 1
            THEN Parsed(r.p, Some(r.v[1].statements[1]))
            ELSE r
    IN  Unwrapped(BlockLoop(ParserNextToken(p), <<>>))

ParseBlockStatement(p) == BlockLoop(ParserNextToken(p), <<>>)

ParseExpressionStatement(p) ==
    LET \* lines 137-143, r the outcome of parse_expression
        StatementOf(r) ==
            IF r.v = None THEN r
            ELSE Parsed(IF r.p.peek_token = Tok("SEMICOLON") THEN ParserNextToken(r.p)
                                                             ELSE r.p,
                        Some(ExpressionStatement(r.v[1])))
    IN  StatementOf(ParseExpression(p, LOWEST))

ParseStatement(p) ==
    CASE p.current_token.type = "LET" -> ParseLetStatement(p)
      [] p.current_token.type = "RETURN" -> ParseReturnStatement(p)
      [] OTHER -> ParseExpressionStatement(p)

ParseIdentifier(p) == Parsed(p, Some(Identifier(p.current_token.name)))

ParseIntegerLiteral(p) == Parsed(p, Some(IntegerLiteral(p.current_token.value)))

ParseBooleanLiteral(p) == Parsed(p, Some(BooleanLiteral(p.current_token.type = "TRUE")))

ParseGroupedExpression(p) ==
    LET \* lines 208-211, e the outcome of expect_peek(RPAREN)
        Close(e, expression) ==
            IF ~e.ok THEN Parsed(e.p, None) ELSE Parsed(e.p, expression)
        \* lines 206-211, r the outcome of parse_expression
        GroupedOf(r) == Close(ExpectPeek(r.p, Tok("RPAREN")), r.v)
    IN  GroupedOf(ParseExpression(ParserNextToken(p), LOWEST))

ParseIfExpression(p) ==
    LET \* lines 243-255, r the outcome of the alternative's block
        Alternative(r, condition, consequence) ==
            Parsed(r.p, Some(IfExpression(condition, consequence, r.v)))
        \* lines 240-246, e the outcome of expect_peek(LBRACE)
        Else(e, condition, consequence) ==
            IF ~e.ok THEN Parsed(e.p, None)
            ELSE Alternative(ParseBlockStatement(e.p), condition, consequence)
        \* lines 233-255, r the outcome of the consequence's block
        Consequence(r, condition) ==
            IF r.p.peek_token = Tok("ELSE")
            THEN Else(ExpectPeek(ParserNextToken(r.p), Tok("LBRACE")), condition, r.v[1])
            ELSE Parsed(r.p, Some(IfExpression(condition, r.v[1], None)))
        \* lines 229-233, e the outcome of expect_peek(LBRACE)
        LeftBrace(e, condition) ==
            IF ~e.ok THEN Parsed(e.p, None)
            ELSE Consequence(ParseBlockStatement(e.p), condition)
        \* lines 225-229, e the outcome of expect_peek(RPAREN)
        RightParen(e, condition) ==
            IF ~e.ok THEN Parsed(e.p, None)
            ELSE LeftBrace(ExpectPeek(e.p, Tok("LBRACE")), condition)
        \* lines 220-225, r the outcome of the condition
        Condition(r) ==
            IF r.v = None THEN r
            ELSE RightParen(ExpectPeek(r.p, Tok("RPAREN")), r.v[1])
        \* lines 215-220, e the outcome of expect_peek(LPAREN)
        LeftParen(e) ==
            IF ~e.ok THEN Parsed(e.p, None)
            ELSE Condition(ParseExpression(ParserNextToken(e.p), LOWEST))
    IN  LeftParen(ExpectPeek(p, Tok("LPAREN")))

\* parse_function_parameters, lines 294-297 and 303-306: the current token is pushed
ParametersPush(p, identifiers) ==
    IF p.current_token.type # "IDENT" THEN Parsed(p, None)
    ELSE ParametersLoop(p, Append(identifiers, p.current_token.name))

\* parse_function_parameters, lines 300-313: the while loop and what follows it
ParametersLoop(p, identifiers) ==
    LET \* lines 309-313, e the outcome of expect_peek(RPAREN)
        Close(e) == IF ~e.ok THEN Parsed(e.p, None) ELSE Parsed(e.p, Some(identifiers))
    IN  IF p.peek_token = Tok("COMMA")
        THEN ParametersPush(ParserNextToken(ParserNextToken(p)), identifiers)
        ELSE Close(ExpectPeek(p, Tok("RPAREN")))

ParseFunctionParameters(p) ==
    IF p.peek_token = Tok("RPAREN") THEN Parsed(ParserNextToken(p), Some(<<>>))
    ELSE ParametersPush(ParserNextToken(p), <<>>)

ParseFunctionLiteral(p) ==
    LET \* lines 272-280, r the outcome of the body's block
        FunctionBody(r, parameters) ==
            Parsed(r.p, Some(FunctionLiteral(parameters, r.v[1])))
        \* lines 268-272, e the outcome of expect_peek(LBRACE)
        LeftBrace(e, parameters) ==
            IF ~e.ok THEN Parsed(e.p, None)
            ELSE FunctionBody(ParseBlockStatement(e.p), parameters)
        \* lines 263-268, r the outcome of the parameters
        Parameters(r) ==
            IF r.v = None THEN r
            ELSE LeftBrace(ExpectPeek(r.p, Tok("LBRACE")), r.v[1])
        \* lines 259-263, e the outcome of expect_peek(LPAREN)
        LeftParen(e) ==
            IF ~e.ok THEN Parsed(e.p, None)
            ELSE Parameters(ParseFunctionParameters(e.p))
    IN  LeftParen(ExpectPeek(p, Tok("LPAREN")))

ParsePrefix(p) ==
    LET \* lines 325-330, r the outcome of the operand
        Operand(operator, r) ==
            IF r.v = None THEN r
            ELSE Parsed(r.p, Some(PrefixExpression(operator, r.v[1])))
    IN  Operand(OperatorOf(p.current_token), ParseExpression(ParserNextToken(p), PREFIX))

\* parse_infix that parses the right operand at LOWEST precedence
ParseInfixToTheEnd(p, left) ==
    LET Operand(operator, r) ==
            IF r.v = None THEN r
            ELSE Parsed(r.p, Some(InfixExpression(operator, left, r.v[1])))
    IN  Operand(OperatorOf(p.current_token), ParseExpression(ParserNextToken(p), LOWEST))

ParseInfix(p, left) ==
    LET \* lines 349-353, r the outcome of the right operand
        Operand(operator, r) ==
            IF r.v = None THEN r
            ELSE Parsed(r.p, Some(InfixExpression(operator, left, r.v[1])))
    IN  Operand(OperatorOf(p.current_token),
                ParseExpression(ParserNextToken(p), CurrentPrecedence(p)))

\* parse_call_arguments, lines 401-405 and 411-415, r the outcome of the argument
ArgumentsPush(r, arguments) ==
    IF r.v = None THEN r
    ELSE ArgumentsLoop(r.p, Append(arguments, r.v[1]))

\* parse_call_arguments, lines 408-422: the while loop and what follows it
ArgumentsLoop(p, arguments) ==
    LET \* lines 418-422, e the outcome of expect_peek(RPAREN)
        Close(e) == IF ~e.ok THEN Parsed(e.p, None) ELSE Parsed(e.p, Some(arguments))
    IN  IF p.peek_token = Tok("COMMA")
        THEN ArgumentsPush(ParseExpression(ParserNextToken(ParserNextToken(p)), LOWEST),
                           arguments)
        ELSE Close(ExpectPeek(p, Tok("RPAREN")))

ParseCallArguments(p) ==
    IF p.peek_token = Tok("RPAREN") THEN Parsed(ParserNextToken(p), Some(<<>>))
    ELSE ArgumentsPush(ParseExpression(ParserNextToken(p), LOWEST), <<>>)

ParseCallExpression(p, function) ==
    LET \* lines 379-387, r the outcome of the arguments
        CallOf(r) ==
            IF r.v = None THEN r
            ELSE Parsed(r.p, Some(CallExpression(function, r.v[1])))
    IN  CallOf(ParseCallArguments(p))

\* the function prefix_parse_fns gives for the current token, called
PrefixParse(p) ==
    CASE p.current_token.type = "IDENT" -> ParseIdentifier(p)
      [] p.current_token.type = "INT" -> ParseIntegerLiteral(p)
      [] p.current_token.type = "LPAREN" -> ParseGroupedExpression(p)
      [] p.current_token.type = "IF" -> ParseIfExpression(p)
      [] p.current_token.type = "FUNCTION" -> ParseFunctionLiteral(p)
      [] p.current_token.type \in {"TRUE", "FALSE"} -> ParseBooleanLiteral(p)
      [] p.current_token.type \in {"BANG", "MINUS"} -> ParsePrefix(p)

\* the function infix_parse_fns gave for the token that is now current, called
InfixParse(p, left) ==
    IF p.current_token.type = "LPAREN" THEN ParseCallExpression(p, left)
    ELSE ParseInfix(p, left)

\* parse_expression, lines 161-178, r the outcome of the left operand so far
InfixLoop(r, precedence) ==
    IF r.p.peek_token = Tok("SEMICOLON") THEN r
    ELSE IF precedence >= PeekPrecedence(r.p) THEN r
    ELSE IF r.p.peek_token.type \notin InfixParseFns THEN r
    ELSE IF r.v = None THEN Parsed(ParserNextToken(r.p), None)
    ELSE InfixLoop(InfixParse(ParserNextToken(r.p), r.v[1]), precedence)

ParseExpression(p, precedence) ==
    IF p.current_token.type \notin PrefixParseFns
    THEN Parsed(PushError(p, [form |-> "no prefix parse function",
                              token |-> p.current_token]), None)
    ELSE InfixLoop(PrefixParse(p), precedence)

\* parse_program as one call: the loop from the parser p on, statements the
\* ones pushed so far; the Parser is returned with the Program
RECURSIVE ParseProgramFrom(_, _)
ParseProgramFrom(p, statements) ==
    LET \* lines 47-50: the statement r.v is pushed if there is one
        Push(r) == ParseProgramFrom(ParserNextToken(r.p), statements \o r.v)
    IN  IF Stopped(p) \/ p.current_token = Tok("EOF")
        THEN [parser |-> p, program |-> Program(statements)]
        ELSE Push(ParseStatement(p))

\* Parser::new(Lexer::new(input)).parse_program()
ParseProgram(input) == ParseProgramFrom(NewParser(NewLexer(input)), <<>>)

(***************************************************************************)
(* ast.rs: Display.  A text is a sequence of chars.                        *)
(***************************************************************************)
\* the chars of a String the lexer made: the letters whose Text it is
NameText(name) == CHOOSE chars \in [1 .. Len(name) -> Letters \cup {"_"}] : Text(chars) = name

\* Display of a non-negative isize
RECURSIVE DecimalText(_)
DecimalText(n) ==
    IF n < 10 THEN <<DigitChars[n + 1]>>
    ELSE DecimalText(n \div 10) \o <<DigitChars[(n % 10) + 1]>>

\* Display for isize
IntegerText(n) == IF n < 0 THEN <<"-">> \o DecimalText(-n) ELSE DecimalText(n)

\* Display for bool
BooleanText(b) == IF b THEN <<"t", "r", "u", "e">> ELSE <<"f", "a", "l", "s", "e">>

\* Display for Infix and for Prefix: the operator's chars
OperatorText(operator) ==
    CASE operator = "==" -> <<"=", "=">>
      [] operator = "!=" -> <<"!", "=">>
      [] OTHER -> <<operator>>

RECURSIVE ExpressionText(_)
RECURSIVE StatementText(_)

\* the texts of the statements, one after the other
RECURSIVE StatementsText(_)
StatementsText(statements) ==
    IF statements = <<>> THEN <<>>
    ELSE StatementText(Head(statements)) \o StatementsText(Tail(statements))

\* Display for Expression, lines 119-126: the arguments from argument i on
RECURSIVE ArgumentsText(_, _)
ArgumentsText(arguments, i) ==
    IF i > Len(arguments) THEN <<>>
    ELSE (IF i = 1 THEN <<>> ELSE <<",", " ">>) \o ExpressionText(arguments[i])
             \o ArgumentsText(arguments, i + 1)

\* Display for Expression, lines 104-110: the parameters from parameter i on
RECURSIVE ParametersText(_, _)
ParametersText(parameters, i) ==
    IF i > Len(parameters) THEN <<>>
    ELSE (IF i = 1 THEN <<>> ELSE <<",", " ">>) \o NameText(parameters[i])
             \o ParametersText(parameters, i + 1)

\* Display for Expression
ExpressionText(expression) ==
    CASE expression.kind = "Identifier" -> NameText(expression.name)
      [] expression.kind = "IntegerLiteral" -> IntegerText(expression.value)
      [] expression.kind = "BooleanLiteral" -> BooleanText(expression.truth)
      [] expression.kind = "Prefix" ->
            <<"(">> \o OperatorText(expression.operator)
                \o ExpressionText(expression.right) \o <<")">>
      [] expression.kind = "Infix" ->
            <<"(">> \o ExpressionText(expression.left) \o <<" ">>
                \o OperatorText(expression.operator) \o <<" ">>
                \o ExpressionText(expression.right) \o <<")">>
      [] expression.kind = "If" ->
            <<"i", "f", " ">> \o ExpressionText(expression.condition) \o <<" ">>
                \o StatementText(expression.consequence)
                \o (IF expression.alternative = None THEN <<>>
                    ELSE <<"e", "l", "s", "e", " ">>
                             \o StatementText(expression.alternative[1]))
      [] expression.kind = "FunctionLiteral" ->
            <<"f", "n", "(">> \o ParametersText(expression.parameters, 1) \o <<")", " ">>
                \o StatementText(expression.body)
      [] expression.kind = "Call" ->
            ExpressionText(expression.function) \o <<"(">>
                \o ArgumentsText(expression.arguments, 1) \o <<")">>

\* Display for Statement
StatementText(statement) ==
    CASE statement.kind = "LetStatement" ->
            <<"l", "e", "t", " ">> \o NameText(statement.name) \o <<" ", "=", " ">>
                \o ExpressionText(statement.value) \o <<";">>
      [] statement.kind = "ReturnStatement" ->
            <<"r", "e", "t", "u", "r", "n", " ">>
                \o ExpressionText(statement.return_value) \o <<";">>
      [] statement.kind = "BlockStatement" -> StatementsText(statement.statements)
      [] statement.kind = "ExpressionStatement" -> ExpressionText(statement.expression)

\* Display for Program
ProgramText(prog) == StatementsText(prog.statements)

(***************************************************************************)
(* The source texts the lexer and the parser are run on, written lexeme by *)
(* lexeme.                                                                 *)
(***************************************************************************)
Ch(c) == <<c>>
KwLet == <<"l", "e", "t">>
KwReturn == <<"r", "e", "t", "u", "r", "n">>
KwIf == <<"i", "f">>
KwElse == <<"e", "l", "s", "e">>
KwFn == <<"f", "n">>
KwTrue == <<"t", "r", "u", "e">>

\* the lexemes, one space between two of them
RECURSIVE Source(_)
Source(lexemes) ==
    IF lexemes = <<>> THEN <<>>
    ELSE IF Len(lexemes) = 1 THEN lexemes[1]
    ELSE lexemes[1] \o <<" ">> \o Source(Tail(lexemes))

\* bound on the number of chars of a lexer input
MaxLen == 3

\* bound on the number of next_token calls of one run of the lexer
MaxCalls == MaxLen + 2

\* a letter, digits, operator chars, a space, a tab, a form feed, a char that
\* starts no token, a char of two bytes, and the NUL char
LexAlphabet == {"a", "1", "9", "=", "!", ";", " ", "\t", "\f", "@", "U+00E9", NUL}

\* every text of at most MaxLen chars of the alphabet
LexInputs == UNION { [1 .. n -> LexAlphabet] : n \in 0 .. MaxLen }

\* bound on the number of lexemes of a generated parser input
MaxTokens == 4

LexemePool ==
    { KwLet, KwReturn, Ch("x"), Ch("5"), Ch("="), Ch(";"), Ch("+"), Ch("("), Ch(")") }

GeneratedSources ==
    { Source(ls) : ls \in UNION { [1 .. n -> LexemePool] : n \in 0 .. MaxTokens } }

\* expression texts, as lexemes
ExpressionLexemes ==
    { <<Ch("5")>>,
      <<Ch("x")>>,
      <<KwTrue>>,
      <<Ch("-"), Ch("5")>>,
      <<Ch("x"), Ch("+"), Ch("5")>>,
      <<Ch("1"), Ch("+"), Ch("2"), Ch("*"), Ch("3")>>,
      <<Ch("("), Ch("1"), Ch("+"), Ch("2"), Ch(")"), Ch("*"), Ch("3")>>,
      <<Ch("f"), Ch("("), Ch("1"), Ch(","), Ch("x"), Ch(")")>>,
      <<KwFn, Ch("("), Ch("x"), Ch(")"), Ch("{"), Ch("x"), Ch("}")>> }

\* `let x = <expr>;`
LetSource(e) == Source(<<KwLet, Ch("x"), Ch("=")>> \o e \o <<Ch(";")>>)

\* `return <expr>;`
ReturnSource(e) == Source(<<KwReturn>> \o e \o <<Ch(";")>>)

\* parser.rs tests and texts around them: statements with and without `;`,
\* every expression form, texts the parser rejects, texts the lexer aborts on
ParserSources ==
    { Source(<<KwLet, Ch("x"), Ch("="), Ch("5")>>),
      Source(<<KwReturn, Ch("5")>>),
      Source(<<KwLet, Ch("x"), Ch("="), Ch("5"), Ch(";"), KwLet, Ch("y"), Ch("="), Ch("x")>>),
      Source(<<Ch("x"), Ch(";"), KwReturn, Ch("x"), Ch(";"), Ch("5"), Ch(";")>>),
      Source(<<KwLet, Ch("x"), Ch("5"), Ch(";")>>),
      Source(<<KwLet, Ch("="), Ch("5"), Ch(";")>>),
      Source(<<Ch("!"), KwTrue, Ch("=="), Ch("x"), Ch(";")>>),
      Source(<<Ch("x"), Ch("<"), Ch("5"), Ch("!="), KwTrue>>),
      Source(<<KwIf, Ch("("), Ch("x"), Ch("<"), Ch("5"), Ch(")"), Ch("{"), Ch("x"), Ch("}")>>),
      Source(<<KwIf, Ch("("), Ch("x"), Ch(")"), Ch("{"), Ch("x"), Ch("}"),
               KwElse, Ch("{"), Ch("5"), Ch(";"), Ch("x"), Ch("}")>>),
      Source(<<KwIf, Ch("("), Ch("x"), Ch(")"), Ch("{"), KwLet, Ch("y"), Ch("="), Ch("1"),
               Ch(";"), Ch("}")>>),
      Source(<<KwIf, Ch("("), Ch("x"), Ch(")"), Ch("{"), KwReturn, Ch("1"), Ch("}")>>),
      Source(<<KwFn, Ch("("), Ch(")"), Ch("{"), KwReturn, Ch("1"), Ch("}")>>),
      Source(<<KwFn, Ch("("), Ch("x"), Ch(","), Ch("y"), Ch(")"), Ch("{"),
               Ch("x"), Ch("/"), Ch("y"), Ch("}")>>),
      Source(<<KwFn, Ch("("), Ch("x"), Ch("5"), Ch(")"), Ch("{"), Ch("}")>>),
      Source(<<Ch("f"), Ch("("), Ch(")"), Ch(";"), Ch("f"), Ch("("), Ch("1"), Ch(","),
               Ch("2"), Ch(">"), Ch("3"), Ch(")")>>),
      Source(<<Ch("f"), Ch("("), Ch("1"), Ch(";")>>),
      Source(<<Ch("("), Ch("1"), Ch("-"), Ch("2")>>),
      Source(<<KwIf, Ch("("), Ch("x"), Ch(")"), Ch("{"), Ch("x"), Ch("}"),
               KwElse, Ch("{"), Ch("5"), Ch("}"), Ch(";"), Ch(")")>>),
      Source(<<KwFn, Ch("("), Ch(")"), Ch("{"), Ch(")"), Ch("x"), Ch("}")>>),
      Source(<<Ch("{"), Ch("x"), Ch("}")>>),
      Source(<<Ch("{"), Ch("x"), Ch(";"), Ch("5"), Ch(";"), Ch("}")>>),
      Source(<<KwIf, Ch("("), Ch("x"), Ch(")"), Ch("{"), Ch("{"), Ch("x"), Ch("}"), Ch("}")>>),
      Source(<<Ch("U+00E9")>>),
      Source(<<Ch("x"), Ch("("), Ch("U+00E9")>>),
      Source(<<KwLet, Ch("x"), Ch("="), Ch("U+00E9"), Ch(";")>>),
      Source(<<Ch("x"), Ch("+"), <<"9", "9", "9">>, Ch(";")>>) }
    \cup { LetSource(e) : e \in ExpressionLexemes }
    \cup { ReturnSource(e) : e \in ExpressionLexemes }

\* the families of source texts the parser is run on
SourceFamilies == <<ParserSources, GeneratedSources>>

\* bound on the number of binary operators of a generated expression
MaxOperators == 3

\* an operand of a generated expression: its lexemes and the tree it stands for
Operand(lexemes, tree) == [lexemes |-> lexemes, tree |-> tree]

\* the k-th plain operand: an identifier
PlainOperand(k) ==
    Operand(<<Ch(<<"a", "b", "c", "d", "e", "f">>[k])>>,
            Identifier(<<"a", "b", "c", "d", "e", "f">>[k]))

\* operands with a prefix operator, parentheses or a call: `-x`, `!x`, `!-x`,
\* `(x + y)`, `-(x + y)`, `g(x * y)`, `-g(x)`
OtherOperands ==
    { Operand(<<Ch("-"), Ch("x")>>, PrefixExpression("-", Identifier("x"))),
      Operand(<<Ch("!"), Ch("x")>>, PrefixExpression("!", Identifier("x"))),
      Operand(<<Ch("!"), Ch("-"), Ch("x")>>,
              PrefixExpression("!", PrefixExpression("-", Identifier("x")))),
      Operand(<<Ch("("), Ch("x"), Ch("+"), Ch("y"), Ch(")")>>,
              InfixExpression("+", Identifier("x"), Identifier("y"))),
      Operand(<<Ch("-"), Ch("("), Ch("x"), Ch("+"), Ch("y"), Ch(")")>>,
              PrefixExpression("-", InfixExpression("+", Identifier("x"), Identifier("y")))),
      Operand(<<Ch("g"), Ch("("), Ch("x"), Ch("*"), Ch("y"), Ch(")")>>,
              CallExpression(Identifier("g"),
                             <<InfixExpression("*", Identifier("x"), Identifier("y"))>>)),
      Operand(<<Ch("-"), Ch("g"), Ch("("), Ch("x"), Ch(")")>>,
              PrefixExpression("-", CallExpression(Identifier("g"), <<Identifier("x")>>))) }

\* the lexeme of a binary operator
OperatorLexeme(op) ==
    CASE op = "==" -> <<"=", "=">>
      [] op = "!=" -> <<"!", "=">>
      [] OTHER -> <<op>>

\* one operator of each rung of the ladder
RungOperators == {"==", ">", "-", "/"}

\* an expression text: operands with a binary operator between each two
OperatorChain(operands, ops) == [operands |-> operands, ops |-> ops]

\* every sequence of at most m operators of the set
OperatorSequences(operators, m) == UNION { [1 .. n -> operators] : n \in 0 .. m }

\* plain operands and every sequence of binary operators
PlainChains ==
    { OperatorChain([k \in 1 .. Len(ops) + 1 |-> PlainOperand(k)], ops) :
        ops \in OperatorSequences(InfixOperators, MaxOperators) }

\* one operand of the chain, the j-th, is not plain; these chains are one
\* operator shorter
MixedChains ==
    { OperatorChain([k \in 1 .. Len(x[1]) + 1 |-> IF k = x[2] THEN d ELSE PlainOperand(k)],
                    x[1]) :
        x \in { y \in OperatorSequences(RungOperators, MaxOperators - 1) \X (1 .. MaxOperators) :
                  y[2] <= Len(y[1]) + 1 },
        d \in OtherOperands }

\* the lexemes of a chain from operand k on
RECURSIVE LexemesFrom(_, _)
LexemesFrom(chain, k) ==
    IF k > Len(chain.ops) THEN chain.operands[k].lexemes
    ELSE chain.operands[k].lexemes \o <<OperatorLexeme(chain.ops[k])>>
             \o LexemesFrom(chain, k + 1)

ChainSource(chain) == Source(LexemesFrom(chain, 1))

ChainSources == { ChainSource(chain) : chain \in PlainChains \cup MixedChains }


(***************************************************************************)
(* The lexer's host: it constructs a Lexer and calls next_token.           *)
(***************************************************************************)
LexInit ==
    /\ pc = "lexing"
    /\ overflow_checks = TRUE
    /\ program = Program(<<>>)
    /\ env = NewEnvironment
    /\ result = NoResult
    /\ trace = <<>>
    /\ source \in LexInputs
    /\ lexer = NewLexer(source)
    /\ tokens = <<>>
    /\ parser = None

\* the host takes the outcome r of next_token; a panic ends the process
TokenReturned(r) ==
    /\ lexer' = r.l
    /\ tokens' = IF r.l.panic = "" THEN Append(tokens, r.token) ELSE tokens
    /\ pc' = IF r.l.panic = "" THEN "lexing" ELSE "aborted"
    /\ UNCHANGED <<overflow_checks, program, env, result, trace, source, parser>>

CallNextToken ==
    /\ pc = "lexing"
    /\ Len(tokens) < MaxCalls
    /\ TokenReturned(NextToken(lexer))

LexNext == CallNextToken

LexSpec == LexInit /\ [][LexNext]_vars

(***************************************************************************)
(* The parser's host: Parser::new(Lexer::new(input)), then parse_program.  *)
(* parse_program is run one turn of its loop at a time; `program` is its   *)
(* local variable, returned at the end.                                    *)
(***************************************************************************)
ParseInit ==
    /\ pc = "start"
    /\ overflow_checks = TRUE
    /\ program = Program(<<>>)
    /\ env = NewEnvironment
    /\ result = NoResult
    /\ trace = <<>>
    /\ \E i \in DOMAIN SourceFamilies : source \in SourceFamilies[i]
    /\ lexer = None
    /\ tokens = <<>>
    /\ parser = None

\* the process after a call that left the parser p
Position(p) ==
    IF p.lexer.panic # "" THEN "aborted"
    ELSE IF p.hung THEN "spinning"
    ELSE "parsing"

\* Parser::new gave p
ParserMade(p) ==
    /\ parser' = p
    /\ pc' = Position(p)
    /\ UNCHANGED <<overflow_checks, program, env, result, trace, source, lexer, tokens>>

NewParserCall ==
    /\ pc = "start"
    /\ ParserMade(NewParser(NewLexer(source)))

\* parse_program, lines 47-50: the statement v is pushed if there is one, p the
\* parser after the next_token of line 50
StatementPushed(p, v) ==
    /\ parser' = p
    /\ program' = IF Stopped(p) THEN program ELSE Program(program.statements \o v)
    /\ pc' = Position(p)
    /\ UNCHANGED <<overflow_checks, env, result, trace, source, lexer, tokens>>

\* parse_program, lines 46-50, r the outcome of parse_statement
StatementParsed(r) == StatementPushed(ParserNextToken(r.p), r.v)

\* one turn of the loop of parse_program
ParseProgramTurn ==
    /\ pc = "parsing"
    /\ parser.current_token # Tok("EOF")
    /\ StatementParsed(ParseStatement(parser))

\* the loop of parse_program ends and the Program is returned
ParseProgramReturn ==
    /\ pc = "parsing"
    /\ parser.current_token = Tok("EOF")
    /\ pc' = "returned"
    /\ UNCHANGED <<overflow_checks, program, env, result, trace, source, lexer, tokens, parser>>

\* one more turn of the loop that never ends: next_token leaves the parser as it is
SkipLoopTurn ==
    /\ pc = "spinning"
    /\ parser.current_token # Tok("SEMICOLON")
    /\ parser' = TakeToken(parser, NextToken(parser.lexer))
    /\ UNCHANGED <<pc, overflow_checks, program, env, result, trace, source, lexer, tokens>>

ParseNext == NewParserCall \/ ParseProgramTurn \/ ParseProgramReturn \/ SkipLoopTurn

ParseSpec == ParseInit /\ [][ParseNext]_vars

\* a loop that is running takes its next turn
FairParseSpec == ParseSpec /\ WF_vars(SkipLoopTurn)

(***************************************************************************)
(* The parse functions' calls of expect_peek, taken alone: on the Parser    *)
(* that Parser::new made, expect_peek is called with a token, and again on  *)
(* the Parser it left.  `tokens` holds the tokens expected so far, `result` *)
(* the bool returned; a panic of the lexer returns none.                    *)
(***************************************************************************)
\* bound on the number of expect_peek calls of one run
MaxExpects == 2

\* tokens the parse functions expect: parser.rs lines 101, 215, 225, 229, 240
ExpectedTokens == { Tok("ASSIGN"), Tok("LPAREN"), Tok("RPAREN"), Tok("LBRACE"), IDENT("x") }

\* expect_peek(token) returned r
ExpectPeekReturned(token, r) ==
    /\ parser' = r.p
    /\ result' = IF r.p.lexer.panic # "" THEN Panic(r.p.lexer.panic)
                  ELSE [tag |-> "ExpectPeek", ok |-> r.ok]
    /\ tokens' = Append(tokens, token)
    /\ pc' = Position(r.p)
    /\ UNCHANGED <<overflow_checks, program, env, trace, source, lexer>>

ExpectPeekCall ==
    /\ pc = "parsing"
    /\ Len(tokens) < MaxExpects
    /\ \E token \in ExpectedTokens : ExpectPeekReturned(token, ExpectPeek(parser, token))

ExpectNext == NewParserCall \/ ExpectPeekCall

ExpectSpec == ParseInit /\ [][ExpectNext]_vars

(***************************************************************************)
(* The same host on expression statements: the text is one chain of        *)
(* operands and binary operators, which has no `let` and no `return`.      *)
(***************************************************************************)
ChainInit ==
    /\ pc = "start"
    /\ overflow_checks = TRUE
    /\ program = Program(<<>>)
    /\ env = NewEnvironment
    /\ result = NoResult
    /\ trace = <<>>
    /\ source \in ChainSources
    /\ lexer = None
    /\ tokens = <<>>
    /\ parser = None

ChainNext == NewParserCall \/ ParseProgramTurn \/ ParseProgramReturn

ChainSpec == ChainInit /\ [][ChainNext]_vars

(***************************************************************************)
(* Properties of the evaluator.                                            *)
(***************************************************************************)
\* an eval call has been made and has returned or aborted
Evaluated == pc \in {"done", "aborted"}

\* the events of the trace, by index
Events == DOMAIN trace

\* C1: the Object returned by the top-level eval is never an Object::ReturnValue,
\* whatever the program and the starting environment
EvalNeverReturnsWrapper ==
    result.tag = "Ok" => result.value.tag # "ReturnValue"

\* C2: a Function shares the environment its literal was evaluated in: a name a
\* later Let binds there is found by the body in a later call, and a function
\* bound with let can call itself by name
FunctionSeesLaterBindings ==
    pc = "done" =>
        \A v \in SampleInts :
            /\ program = LateBindingProgram(v) => result = Ok(Integer(v))
            /\ program = SelfCallProgram(v) => result = Ok(Integer(v))

\* C6: eval returns Ok(value) or an error of one of the four message forms; no
\* integer operation aborts the evaluation
EvalReturnsValueOrError ==
    /\ pc # "aborted"
    /\ result.tag # "Panic"
    /\ result.tag = "Err" =>
          result.msg.form \in {"identifier not found", "unknown operator",
                               "type mismatch", "not a function"}

\* what `z` is bound to in the definition scope of the programs below, the top level
InDefinitionScope(name) ==
    IF name \in DOMAIN env.store
    THEN Ok(env.store[name])
    ELSE Err([form |-> "identifier not found", name |-> name])

\* C7: an identifier of a function body is resolved in the call's fresh
\* environment (parameters, body lets), then in the captured environment chain,
\* never in the caller's environment
CalleeResolvesLexically ==
    pc = "done" =>
        \A v \in SampleInts, w \in SampleInts :
            /\ program = CallerLocalProgram(w) => result = InDefinitionScope("z")
            /\ program = CallerParameterProgram(w) => result = InDefinitionScope("z")
            /\ program = DefinitionScopeProgram(v, w) => result = Ok(Integer(v))
            /\ program = ParameterShadowProgram(v, w) => result = Ok(Integer(w))
            /\ program = BodyLetShadowProgram(v, w) => result = Ok(Integer(w))

\* C7 witness: the caller bound z to 2 in its own scope, the callee read the 1 of
\* its definition scope; and a callee failed to see a name only its caller binds
CalleeResolvesLexicallyWitness ==
    \/ /\ pc = "done"
       /\ program = DefinitionScopeProgram(1, 2)
       /\ result = Ok(Integer(1))
    \/ /\ pc = "done"
       /\ program = CallerLocalProgram(2)
       /\ result = Err([form |-> "identifier not found", name |-> "z"])

\* res is the outcome of the isize sum a + b: the sum when it fits, else the
\* overflow panic or the wrapped sum
IsSum(res, a, b) ==
    IF a + b \in IntRange
    THEN res = Ok(Integer(a + b))
    ELSE \/ res.tag = "Panic"
         \/ res = Ok(Integer(IF a + b > MaxInt THEN a + b - 2 ^ IntBits
                                               ELSE a + b + 2 ^ IntBits))

\* the evaluated program is one of the adder programs, which start with newAdder
MakesAdders ==
    /\ program.statements # <<>>
    /\ program.statements[1] = SLet("newAdder", NewAdder)

IsBlockAt(act, q) ==
    \/ act = 0 /\ q = <<>>
    \/ \E k \in Events :
          /\ trace[k].ev = "stmt" /\ trace[k].kind = "BlockStatement"
          /\ trace[k].act = act /\ trace[k].path = q

\* the statement at path r comes after the statement at path p in the block of p
\* or in a block that encloses it
LaterInEnclosingBlock(act, p, r) ==
    \E k \in 1 .. Len(p) :
        /\ Len(r) = k
        /\ SubSeq(r, 1, k - 1) = SubSeq(p, 1, k - 1)
        /\ r[k] > p[k]
        /\ IsBlockAt(act, SubSeq(p, 1, k - 1))

\* C9: once a `return` statement has been evaluated, no later statement of the
\* same block or of an enclosing block, up to the function or program boundary
\* (the same activation), is evaluated, and the boundary yields the returned value
ReturnEndsActivation ==
    /\ \A i \in Events, j \in Events :
           (i < j /\ trace[i].ev = "return" /\ trace[j].ev = "stmt"
                  /\ trace[j].act = trace[i].act)
               => ~LaterInEnclosingBlock(trace[i].act, trace[i].path, trace[j].path)
    /\ pc = "done" =>
          /\ program = Program(<<SExp(XInt(3)),
                                 SRet(InfixExpression("*", XInt(2), XInt(3))),
                                 SExp(XInt(3))>>) => result = Ok(Integer(6))
          /\ \A v \in SampleInts :
                program = Program(<<SRet(ReturningIf(v))>>) => result = Ok(Integer(v))

\* C10: a `return` in a function body ends only that call: the Call yields the
\* returned value without the wrapper and the caller's next statements run
ReturnEndsOnlyTheCall ==
    pc = "done" =>
        \A body \in ReturningBodies, v \in SampleInts :
            program = CallThenSevenProgram(body, v) =>
                /\ result = Ok(Integer(7))
                /\ env.store["r"] = Integer(v)

\* the value of the operand x of the evaluated program's expression, in env
OperandValue(x) ==
    EvalExpression(x, [env |-> env, trace |-> <<>>, calls |-> 0],
                   [act |-> 0, path |-> <<>>]).res

\* the evaluated program is one expression statement with an Infix at its top
IsInfixProgram ==
    /\ pc = "done"
    /\ Len(program.statements) = 1
    /\ program.statements[1].kind = "ExpressionStatement"
    /\ program.statements[1].expression.kind = "Infix"

\* the errors of `l op r` by the type tags of the operand values l and r
InfixErrorsByTag(op, l, r) ==
    (l.tag = "Ok" /\ r.tag = "Ok") =>
        /\ TypeOf(l.value) # TypeOf(r.value) =>
              result = Err([form |-> "type mismatch", left |-> TypeOf(l.value),
                            operator |-> op, right |-> TypeOf(r.value)])
        /\ (result.tag = "Err" /\ result.msg.form = "unknown operator") <=>
              /\ TypeOf(l.value) = TypeOf(r.value)
              /\ ~(TypeOf(l.value) = "INTEGER" /\ TypeOf(r.value) = "INTEGER")
              /\ op \notin {"==", "!="}

\* C11: for every infix operator, `==` and `!=` included, operand values whose
\* type tags differ give `type mismatch`; `unknown operator` is the result exactly
\* when the tags are equal, the operands are not both Integer and the operator is
\* neither `==` nor `!=`
InfixErrorsFollowTags ==
    IsInfixProgram =>
        InfixErrorsByTag(program.statements[1].expression.operator,
                         OperandValue(program.statements[1].expression.left),
                         OperandValue(program.statements[1].expression.right))

\* C12: a call with more arguments than parameters binds the parameters in
\* order and ignores the rest without error; with fewer arguments the missing
\* parameters stay unbound, and a reference to one in the body raises
\* `identifier not found: <name>`
ArityMismatchIsLenient ==
    pc = "done" =>
        \A a \in SampleInts, b \in SampleInts :
            /\ program = ExtraArgumentProgram(a, b) => result = Ok(Integer(a))
            /\ program = MissingUnusedProgram(a) => result = Ok(Integer(a))
            /\ program = MissingArgumentProgram(a) =>
                  result = Err([form |-> "identifier not found", name |-> "y"])
            /\ program = MissingShadowingProgram(b, a) =>
                  result = Err([form |-> "identifier not found", name |-> "y"])

\* an expression of kind Call was evaluated at path q of activation act
IsCallAt(act, q) ==
    \E k \in Events :
        /\ trace[k].ev = "expr" /\ trace[k].kind = "Call"
        /\ trace[k].act = act /\ trace[k].path = q

\* event i belongs to a later child of a Call than event j: the callee is child
\* 0, the arguments are the children 1, 2, ...
LaterChildOfCall(i, j) ==
    \E d \in 1 .. Len(trace[i].path) :
        /\ d <= Len(trace[j].path)
        /\ SubSeq(trace[i].path, 1, d - 1) = SubSeq(trace[j].path, 1, d - 1)
        /\ trace[i].path[d] > trace[j].path[d]
        /\ IsCallAt(trace[i].act, SubSeq(trace[i].path, 1, d - 1))

\* an event of the trace is at path q of the program or below it
EvaluatedAt(q) ==
    \E k \in Events :
        /\ trace[k].act = 0
        /\ Len(trace[k].path) >= Len(q)
        /\ SubSeq(trace[k].path, 1, Len(q)) = q

\* C13: in a Call the callee is evaluated first, then the arguments from left
\* to right; the first argument that errors ends the evaluation of the arguments
\* and its error is the result; the callee's value is tested for being a
\* function only after the arguments (`5(u)` reports `identifier not found: u`)
CallEvaluatesInOrder ==
    /\ \A i \in Events, j \in Events :
           (i < j /\ trace[i].act = trace[j].act) => ~LaterChildOfCall(i, j)
    /\ (pc = "done" /\ "u" \notin DOMAIN env.store /\ "w" \notin DOMAIN env.store) =>
          /\ program = Program(<<SExp(XCall(XInt(5), <<XId("u")>>))>>) =>
                result = Err([form |-> "identifier not found", name |-> "u"])
          /\ program = Program(<<SExp(XCall(XInt(5), <<XInt(1)>>))>>) =>
                result = Err([form |-> "not a function", obj |-> Integer(5)])
          /\ program = Program(<<SExp(XCall(XInt(5), <<XInt(1), XId("u"), XId("w")>>))>>) =>
                /\ result = Err([form |-> "identifier not found", name |-> "u"])
                /\ EvaluatedAt(<<1, 1, 2>>)
                /\ ~EvaluatedAt(<<1, 1, 3>>)
          /\ program = Program(<<SExp(XCall(XId("u"), <<XId("w")>>))>>) =>
                /\ result = Err([form |-> "identifier not found", name |-> "u"])
                /\ ~EvaluatedAt(<<1, 1, 1>>)
          /\ program = Program(<<SExp(XCall(XFn(<<"a", "b">>, <<SExp(XId("a"))>>),
                                            <<XId("u"), XId("w")>>))>>) =>
                /\ result = Err([form |-> "identifier not found", name |-> "u"])
                /\ ~EvaluatedAt(<<1, 1, 2>>)

\* C13 witness: a call whose second argument of three failed was evaluated; and
\* a call with two arguments, each with parts of its own, went through
CallEvaluatesInOrderWitness ==
    \/ /\ pc = "done"
       /\ program = Program(<<SExp(XCall(XInt(5), <<XInt(1), XId("u"), XId("w")>>))>>)
       /\ result = Err([form |-> "identifier not found", name |-> "u"])
    \/ /\ pc = "done"
       /\ program = Program(<<SExp(XCall(XFn(<<"a", "b">>, <<SExp(XId("b"))>>),
                                         <<InfixExpression("+", XInt(1), XInt(1)),
                                           XCall(XFn(<<>>, <<SExp(XInt(2))>>), <<>>)>>))>>)
       /\ result = Ok(Integer(2))

\* the evaluated program is one expression statement with a `!` at its top
IsBangProgram ==
    /\ pc = "done"
    /\ Len(program.statements) = 1
    /\ program.statements[1].kind = "ExpressionStatement"
    /\ program.statements[1].expression.kind = "Prefix"
    /\ program.statements[1].expression.operator = "!"

\* Null and Boolean(false) are falsy, every other value is truthy
Truthy(obj) == obj # Null /\ obj # Boolean(FALSE)

\* `!x` on an operand x of value v: Boolean(not truthy(v)), with the truthiness
\* the if-expression tests
BangNegates(v) ==
    v.tag = "Ok" => /\ result = Ok(Boolean(~Truthy(v.value)))
                    /\ IsTruthy(v.value) <=> Truthy(v.value)

\* `!!y` on an operand y of value v: Boolean(truthy(v))
BangTwiceProjects(x) ==
    (x.kind = "Prefix" /\ x.operator = "!" /\ OperandValue(x.right).tag = "Ok")
        => result = Ok(Boolean(Truthy(OperandValue(x.right).value)))

\* C19: for every value v, `!v` is Boolean(not truthy(v)) and `!!v` is
\* Boolean(truthy(v)), truthy being the predicate of the if-expression: Null and
\* Boolean(false) are falsy, every other value (Integer(0), functions) is truthy
BangFollowsTruthiness ==
    IsBangProgram =>
        /\ BangNegates(OperandValue(program.statements[1].expression.right))
        /\ BangTwiceProjects(program.statements[1].expression.right)

\* `!!0` has been evaluated to true
BangFollowsTruthinessWitness ==
    /\ IsBangProgram
    /\ program.statements[1].expression.right = PrefixExpression("!", XInt(0))
    /\ result = Ok(Boolean(TRUE))

\* the events at child i of the If of event k: the condition is child 1, the
\* consequence child 2, the alternative child 3
ChildEvents(k, i) ==
    { j \in Events : /\ trace[j].act = trace[k].act
                     /\ trace[j].path = Append(trace[k].path, i) }

\* an If evaluates its condition once, after that at most one block
OneConditionOneBlock(k) ==
    /\ Cardinality(ChildEvents(k, 1)) = 1
    /\ Cardinality(ChildEvents(k, 2) \cup ChildEvents(k, 3)) <= 1
    /\ \A j \in ChildEvents(k, 1) : j > k
    /\ \A j \in ChildEvents(k, 2) \cup ChildEvents(k, 3) :
           \A i \in ChildEvents(k, 1) : j > i

\* the evaluated program is one expression statement with an If at its top
IsIfProgram ==
    /\ pc = "done"
    /\ Len(program.statements) = 1
    /\ program.statements[1].kind = "ExpressionStatement"
    /\ program.statements[1].expression.kind = "If"

\* the path of the expression of the program's first statement
TopExpression == <<1, 1>>

\* child i of the program's If has been evaluated
Taken(i) ==
    \E j \in Events : trace[j].act = 0 /\ trace[j].path = Append(TopExpression, i)

\* the block taken by the If x on a condition of value v
BlockByTruthiness(x, v) ==
    v.tag = "Ok" =>
        /\ Taken(2) <=> Truthy(v.value)
        /\ Taken(3) <=> (~Truthy(v.value) /\ x.alternative # None)
        /\ (~Truthy(v.value) /\ x.alternative = None) => result = Ok(Null)

\* C20: an if-expression evaluates its condition once and then at most one of
\* its blocks: the consequence if and only if the condition's value is truthy
\* (Integer(0) is truthy), otherwise the alternative when there is one; with a
\* falsy condition and no alternative the result is Null and no block is evaluated
IfEvaluatesOneBlock ==
    /\ \A k \in Events : trace[k].kind = "If" => OneConditionOneBlock(k)
    /\ IsIfProgram =>
           BlockByTruthiness(program.statements[1].expression,
                             OperandValue(program.statements[1].expression.condition))

\* `if (0) { 1 } else { 2 }` has been evaluated to 1, by its consequence alone
IfEvaluatesOneBlockWitness ==
    /\ IsIfProgram
    /\ program.statements[1].expression.condition = XInt(0)
    /\ program.statements[1].expression.alternative # None
    /\ Taken(2) /\ ~Taken(3)
    /\ result = Ok(Integer(1))

\* the line looks the name up, at the top level or in a function it calls
LooksUp(line, name) ==
    \/ line = Program(<<SExp(XId(name))>>)
    \/ line = Program(<<SExp(XCall(XFn(<<>>, <<SExp(XId(name))>>), <<>>))>>)

\* C22: a name bound by a top-level Let in one eval call stays in the host's
\* Environment, and an identifier lookup in a later eval call on the same
\* Environment finds it, with the value it was bound to
BindingsOutliveEval ==
    [][/\ (pc = "start" /\ pc' = "ready") =>
              \A i \in DOMAIN program'.statements :
                  program'.statements[i].kind = "LetStatement" =>
                      program'.statements[i].name \in DOMAIN env'.store
       /\ (pc = "ready" /\ pc' = "done") =>
              \A name \in DOMAIN env.store :
                  /\ LooksUp(program', name) => result' = Ok(env.store[name])
                  /\ Get(env', name) # None]_vars

\* the last statement of the line is a call of a name with literal arguments
EndsWithCall(line) ==
    /\ line.statements # <<>>
    /\ line.statements[Len(line.statements)].kind = "ExpressionStatement"
    /\ line.statements[Len(line.statements)].expression.kind = "Call"
    /\ line.statements[Len(line.statements)].expression.function.kind = "Identifier"
    /\ \A i \in DOMAIN line.statements[Len(line.statements)].expression.arguments :
           line.statements[Len(line.statements)].expression.arguments[i].kind
               = "IntegerLiteral"

\* the Environment the statements before the last one leave, from e on
BeforeLastStatement(line, e) ==
    Eval(Program(SubSeq(line.statements, 1, Len(line.statements) - 1)), e).s.env

\* C24: a Let and a parameter binding write only the innermost environment:
\* after a call returns, the caller's environment and the function's captured
\* environment hold the bindings and values they held when the body started,
\* whatever the body bound, names that shadow outer ones included
CallLeavesOuterBindings ==
    [][(pc' = "done" /\ pc # "done") =>
          /\ EndsWithCall(program') => env' = BeforeLastStatement(program', env)
          /\ \A v \in {-1, 0, 2} :
                /\ program' = BodyBindsProgram(v, <<SExp(XId("x"))>>) =>
                       result' = Ok(Integer(v))
                /\ program' = BodyBindsProgram(v, <<SExp(XId("b"))>>) =>
                       result' = Err([form |-> "identifier not found", name |-> "b"])
                /\ program' = BodyBindsProgram(v, <<SExp(XCall(XId("f"), <<XInt(9)>>))>>) =>
                       result' = Ok(Integer(v + 1))]_vars

\* after the call whose body bound x, b and a, the caller's x is its own and
\* b is not bound
CallLeavesOuterBindingsWitness ==
    /\ pc = "done"
    /\ program = BodyBindsProgram(2, <<>>)
    /\ result = Ok(Integer(3))
    /\ env.store["x"] = Integer(2)
    /\ "b" \notin DOMAIN env.store
    /\ env.store["f"].env.store["x"] = Integer(2)


\* the outcome of the statements from the Environment e on
Flat(statements, e) == Eval(Program(statements), e)

\* C29: a block opens no scope: a let executed inside the consequence or the
\* alternative of an if-expression binds in the environment of the enclosing
\* program or function body, so the if-expression followed by `rest` leaves what
\* the statements of the block followed by `rest` leave, and `rest` reads the
\* names; a block that is not executed binds nothing
BlockLetsBindOutside ==
    [][(pc' = "done" /\ pc # "done") =>
          \A b \in BlockBodies, r \in StatementsAfter :
              /\ program' \in {InConsequence(b, r), InAlternative(b, r), InNestedBlock(b, r)} =>
                    /\ env' = Flat(b \o r, env).s.env
                    /\ result' = Flat(b \o r, env).res
                    /\ env'.store["q"] = Flat(b, env).s.env.store["q"]
                    /\ r = <<SExp(XId("q"))>> => result' = Ok(env'.store["q"])
              /\ program' = InBlockNotTaken(b, r) =>
                    /\ env' = env
                    /\ result' = IF r = <<>> THEN Ok(Null) ELSE Flat(r, env).res
              /\ program' = InFunctionBody(b, r) =>
                    /\ env' = env
                    /\ result' = Flat(b \o r, NewEnclosed(env)).res]_vars

\* a let in a consequence rebound the x of an earlier line and bound q, and the
\* statement after the if-expression read q
BlockLetsBindOutsideWitness ==
    /\ pc = "done"
    /\ program = InConsequence(<<SLet("x", XInt(2)),
                                 SLet("q", InfixExpression("+", XId("x"), XInt(1)))>>,
                               <<SExp(XId("q"))>>)
    /\ result = Ok(Integer(3))
    /\ env.store["q"] = Integer(3)
    /\ env.store["x"] = Integer(2)
    /\ "z" \in DOMAIN env.store


\* the names bound by the lets of the node that the enclosing environment
\* takes: those of blocks, not those of function bodies
RECURSIVE LetNames(_)
LetNames(node) ==
    CASE node.kind = "LetStatement" -> {node.name} \cup LetNames(node.value)
      [] node.kind = "ReturnStatement" -> LetNames(node.return_value)
      [] node.kind = "BlockStatement" ->
            UNION { LetNames(node.statements[i]) : i \in DOMAIN node.statements }
      [] node.kind = "ExpressionStatement" -> LetNames(node.expression)
      [] node.kind = "Prefix" -> LetNames(node.right)
      [] node.kind = "Infix" -> LetNames(node.left) \cup LetNames(node.right)
      [] node.kind = "If" ->
            LetNames(node.condition) \cup LetNames(node.consequence)
            \cup (IF node.alternative # None THEN LetNames(node.alternative[1]) ELSE {})
      [] node.kind = "Call" ->
            LetNames(node.function)
            \cup UNION { LetNames(node.arguments[i]) : i \in DOMAIN node.arguments }
      [] OTHER -> {}

\* the names of the lets inside the statement, the statement's own name left out
InnerLetNames(statement) ==
    IF statement.kind = "LetStatement" THEN LetNames(statement.value)
    ELSE LetNames(statement)

\* the top-level statement the evaluation tr ended in
LastStatement(tr) ==
    CHOOSE k \in 1 .. Len(tr) :
        /\ \E j \in DOMAIN tr :
              tr[j].act = 0 /\ tr[j].ev = "stmt" /\ tr[j].path = <<k>>
        /\ \A j \in DOMAIN tr :
              (tr[j].act = 0 /\ tr[j].ev = "stmt" /\ Len(tr[j].path) = 1) => tr[j].path[1] <= k

\* the Environment the statements before statement k leave, from e on
BeforeStatement(line, k, e) == Eval(Program(SubSeq(line.statements, 1, k - 1)), e).s.env

\* e and f bind the name alike: in neither, or in both to the same Object
BoundAlike(name, e, f) ==
    /\ name \in DOMAIN e.store <=> name \in DOMAIN f.store
    /\ name \in DOMAIN e.store => e.store[name] = f.store[name]

\* the bindings an eval that failed in statement k left: those the statements
\* before k made, a name changed only by a let inside statement k
KeepsCompletedLets(line, k, before, after) ==
    /\ after.outer = before.outer
    /\ \A name \in (DOMAIN BeforeStatement(line, k, before).store \cup DOMAIN after.store)
                       \ InnerLetNames(line.statements[k]) :
           BoundAlike(name, BeforeStatement(line, k, before), after)
    /\ line.statements[k].kind = "LetStatement" =>
           \/ line.statements[k].name \in InnerLetNames(line.statements[k])
           \/ BoundAlike(line.statements[k].name, BeforeStatement(line, k, before), after)

\* C30: when eval ends in an error at statement k, the Environment holds the
\* bindings of the lets completed before the error, those of statements 1..k-1
\* and the completed lets inside statement k; nothing is rolled back, a failing
\* let binds nothing, and no statement after k has bound a name
FailedEvalKeepsCompletedLets ==
    [][(pc' \in {"ready", "done"} /\ pc # pc' /\ result'.tag = "Err") =>
          /\ KeepsCompletedLets(program', LastStatement(trace'), env, env')
          /\ \A v \in {-1, 0, 2} : \A failing \in FailingStatements :
                program' = FailingProgram(v, failing) =>
                    /\ Get(env', "a") = Some(Integer(v))
                    /\ Get(env', "x") = Some(Integer(v))
                    /\ "d" \notin DOMAIN env'.store
                    /\ "b" \in DOMAIN env'.store <=> failing.kind = "ExpressionStatement"
                                                      /\ failing.expression.kind = "If"
                    /\ "c" \in DOMAIN env'.store <=> failing.kind = "LetStatement"
                                                      /\ failing.value.kind = "If"
          /\ program' = Program(<<SLet("x", XId("nope"))>>) => env' = env]_vars

\* an eval that failed in its third statement, a let: the x of the second
\* statement has replaced the x of an earlier line, the let inside the failing
\* statement is bound, the failing let and the let after it are not
FailedEvalKeepsCompletedLetsWitness ==
    /\ pc = "done"
    /\ program = FailingProgram(2, SLet("b", XIf(XBool(TRUE), <<SLet("c", XId("a")),
                                                                 SExp(XId("nope"))>>)))
    /\ result = Err([form |-> "identifier not found", name |-> "nope"])
    /\ env.store["x"] = Integer(2)
    /\ env.store["c"] = Integer(2)
    /\ "b" \notin DOMAIN env.store
    /\ "d" \notin DOMAIN env.store
    /\ "foobar" \in DOMAIN env.store

(***************************************************************************)
(* Properties of the lexer and the parser.                                 *)
(***************************************************************************)
\* C5: Lexer::new followed by any number of next_token calls never aborts: chars
\* outside ASCII and digit runs too large for isize give tokens, not a panic
LexerNeverAborts == lexer.panic = ""

\* C16: the tokens of repeated next_token calls reach EOF after finitely many
\* calls (one call more than the input has chars is enough); EOF is returned
\* only when every char of the input has been consumed; and after an EOF every
\* later call returns EOF again
LexerEndsWithEof ==
    /\ pc # "aborted"
    /\ Len(tokens) > Len(source) => \E i \in DOMAIN tokens : tokens[i] = Tok("EOF")
    /\ (tokens # <<>> /\ tokens[Len(tokens)] = Tok("EOF")) => lexer.position >= Len(source)
    /\ \A i \in DOMAIN tokens, j \in DOMAIN tokens :
           (i < j /\ tokens[i] = Tok("EOF")) => tokens[j] = Tok("EOF")

\* the four chars the lexer is to skip
SkippedChars == {" ", "\t", "\r", "\n"}

\* chars that start no token and are not skipped: each is to give one ILLEGAL
IsOtherChar(ch) ==
    /\ ch \notin SkippedChars
    /\ ch \notin DOMAIN SingleCharTokens \cup {"=", "!"}
    /\ ~IsLetter(ch) /\ ~IsDigit(ch)

\* the tokens of a text of skipped chars, other chars and `;`, before its EOF
RECURSIVE TokensCharByChar(_)
TokensCharByChar(chars) ==
    IF chars = <<>> THEN <<>>
    ELSE LET rest == TokensCharByChar(Tail(chars))
         IN  CASE Head(chars) \in SkippedChars -> rest
               [] Head(chars) = ";" -> <<Tok("SEMICOLON")>> \o rest
               [] OTHER -> <<Tok("ILLEGAL")>> \o rest

\* C17: exactly space, tab, CR and LF are skipped without a token; every other
\* char that is no operator or punctuation char, ASCII letter, `_` or ASCII
\* digit gives exactly one ILLEGAL token and lexing resumes at the next char:
\* on a text of such chars and `;` the tokens returned so far are the first
\* tokens of one token per unskipped char, followed by EOF
OnlyFourCharsSkipped ==
    (\A i \in DOMAIN source :
        source[i] \in SkippedChars \/ source[i] = ";" \/ IsOtherChar(source[i]))
    => /\ pc # "aborted"
       /\ \A i \in DOMAIN tokens :
              tokens[i] = IF i <= Len(TokensCharByChar(source))
                          THEN TokensCharByChar(source)[i] ELSE Tok("EOF")

\* C18: whenever a turn of parse_program gets no statement from
\* parse_statement, at least one message has been appended to the error list;
\* and the statements pushed before stay in the program, in their order, with
\* a statement of this turn after them
NoStatementLeavesAnError ==
    [][(pc = "parsing" /\ pc' = "parsing" /\ parser' # parser)
          => /\ program'.statements = program.statements
                   => Len(parser'.errors) > Len(parser.errors)
             /\ Len(program'.statements) <= Len(program.statements) + 1
             /\ \A i \in DOMAIN program.statements :
                    program'.statements[i] = program.statements[i]]_vars

\* C3: parse_program terminates on every finite input: the loop that skips to
\* the `;` of a `let` or `return` statement ends, also when there is no `;`
\* before the end of input
ParseProgramTerminates == (pc = "spinning") ~> (pc \in {"parsing", "returned", "aborted"})

\* the tree parse_expression(LOWEST) gives for the expression text e before a `;`
ExpressionTree(e) ==
    ParseExpression(NewParser(NewLexer(Source(e \o <<Ch(";")>>))), LOWEST).v[1]

\* C4: `let <name> = <expr>;` gives Let{name, value} and `return <expr>;` gives
\* Return{value} with value the tree parse_expression(LOWEST) gives for <expr>
LetAndReturnKeepExpression ==
    pc = "returned" =>
        \A e \in ExpressionLexemes :
            /\ source = LetSource(e) =>
                  program = Program(<<LetStatement("x", ExpressionTree(e))>>)
            /\ source = ReturnSource(e) =>
                  program = Program(<<ReturnStatement(ExpressionTree(e))>>)

\* the rung of a binary operator on the ladder
Rung(op) ==
    CASE op \in {"==", "!="} -> EQUALS
      [] op \in {"<", ">"} -> LESSGREATER
      [] op \in {"+", "-"} -> SUM
      [] op \in {"*", "/"} -> PRODUCT

\* the operator that binds loosest: the lowest rung, and the last of that rung
Loosest(ops) ==
    CHOOSE k \in DOMAIN ops :
        \A j \in DOMAIN ops :
            \/ Rung(ops[k]) < Rung(ops[j])
            \/ Rung(ops[k]) = Rung(ops[j]) /\ j <= k

RECURSIVE Grouped(_, _)
\* the tree at the operator k: what is left of it, and what is right of it
SplitAt(trees, ops, k) ==
    InfixExpression(ops[k],
                    Grouped(SubSeq(trees, 1, k), SubSeq(ops, 1, k - 1)),
                    Grouped(SubSeq(trees, k + 1, Len(trees)), SubSeq(ops, k + 1, Len(ops))))

\* the grouping the ladder asks for: higher rungs bind tighter, one rung groups
\* from left to right, an operand stays whole
Grouped(trees, ops) ==
    IF ops = <<>> THEN trees[1] ELSE SplitAt(trees, ops, Loosest(ops))

\* each chain's text with the tree the ladder asks for
ChainCases ==
    { [source |-> ChainSource(chain),
       tree |-> Grouped([k \in DOMAIN chain.operands |-> chain.operands[k].tree],
                        chain.ops)] : chain \in PlainChains \cup MixedChains }

\* C14: an error-free expression of operands, prefix operators, the eight
\* binary operators, parentheses and calls is grouped by the ladder LOWEST <
\* EQUALS < LESSGREATER < SUM < PRODUCT < PREFIX < CALL: a higher operator binds
\* tighter, equal ones group from left to right, a prefix operand holds no
\* binary operator, a call binds tightest
ParserGroupsByLadder ==
    pc = "returned" =>
        \A case \in ChainCases :
            source = case.source =>
                /\ parser.errors = <<>>
                /\ program = Program(<<ExpressionStatement(case.tree)>>)

\* C14 witness: `a + b * c - d` was parsed as ((a + (b * c)) - d), and
\* `-x * b` as ((-x) * b)
ParserGroupsByLadderWitness ==
    \/ /\ pc = "returned"
       /\ source = Source(<<Ch("a"), Ch("+"), Ch("b"), Ch("*"), Ch("c"), Ch("-"), Ch("d")>>)
       /\ program = Program(<<ExpressionStatement(
              InfixExpression("-",
                  InfixExpression("+", Identifier("a"),
                      InfixExpression("*", Identifier("b"), Identifier("c"))),
                  Identifier("d")))>>)
    \/ /\ pc = "returned"
       /\ source = Source(<<Ch("-"), Ch("x"), Ch("/"), Ch("b")>>)
       /\ program = Program(<<ExpressionStatement(
              InfixExpression("/", PrefixExpression("-", Identifier("x")),
                              Identifier("b")))>>)

\* a node of the tree has the value expression Display writes: a `let` or a
\* `return` the parser made has none
RECURSIVE HasItsValues(_)
HasItsValues(node) ==
    CASE node.kind = "LetStatement" -> node.value # None /\ HasItsValues(node.value)
      [] node.kind = "ReturnStatement" ->
            node.return_value # None /\ HasItsValues(node.return_value)
      [] node.kind = "BlockStatement" ->
            \A i \in DOMAIN node.statements : HasItsValues(node.statements[i])
      [] node.kind = "ExpressionStatement" -> HasItsValues(node.expression)
      [] node.kind = "Prefix" -> HasItsValues(node.right)
      [] node.kind = "Infix" -> HasItsValues(node.left) /\ HasItsValues(node.right)
      [] node.kind = "If" ->
            /\ HasItsValues(node.condition)
            /\ HasItsValues(node.consequence)
            /\ node.alternative # None => HasItsValues(node.alternative[1])
      [] node.kind = "FunctionLiteral" -> HasItsValues(node.body)
      [] node.kind = "Call" ->
            /\ HasItsValues(node.function)
            /\ \A i \in DOMAIN node.arguments : HasItsValues(node.arguments[i])
      [] OTHER -> TRUE

\* parsing again gave r: no errors, and the same program
SameProgram(r) ==
    /\ ~Stopped(r.parser)
    /\ r.parser.errors = <<>>
    /\ r.program = program

\* C15: for an input that parses without errors, the text to_string() gives for
\* the program parses again, without errors, to a structurally equal program;
\* so for several statements, if-expressions and function literals as for
\* operator expressions
ReparsedTextIsSameProgram ==
    (/\ pc = "returned"
     /\ parser.errors = <<>>
     /\ \A i \in DOMAIN program.statements : HasItsValues(program.statements[i]))
        => SameProgram(ParseProgram(ProgramText(program)))

\* the quotient of l by r # 0 that truncates toward zero: l = q * r + m with a
\* remainder m of the sign of l and smaller than r in magnitude
TruncatedQuotient(l, r) ==
    CHOOSE q \in -Abs(l) .. Abs(l) :
        \E m \in -(Abs(r) - 1) .. (Abs(r) - 1) :
            /\ l = q * r + m
            /\ m = 0 \/ (m < 0) = (l < 0)

\* an expression of integer literals, unary `-` and `+ - * /`
RECURSIVE IsArithmetic(_)
IsArithmetic(e) ==
    CASE e.kind = "IntegerLiteral" -> TRUE
      [] e.kind = "Prefix" -> e.operator = "-" /\ IsArithmetic(e.right)
      [] e.kind = "Infix" ->
            e.operator \in ArithmeticOperators /\ IsArithmetic(e.left) /\ IsArithmetic(e.right)
      [] OTHER -> FALSE

\* the mathematical value of an arithmetic expression; a division by zero is
\* given the value of its dividend, MathDefined tells it apart
RECURSIVE MathValue(_)
MathValue(e) ==
    CASE e.kind = "IntegerLiteral" -> e.value
      [] e.kind = "Prefix" -> -MathValue(e.right)
      [] e.kind = "Infix" /\ e.operator = "+" -> MathValue(e.left) + MathValue(e.right)
      [] e.kind = "Infix" /\ e.operator = "-" -> MathValue(e.left) - MathValue(e.right)
      [] e.kind = "Infix" /\ e.operator = "*" -> MathValue(e.left) * MathValue(e.right)
      [] e.kind = "Infix" /\ e.operator = "/" ->
            IF MathValue(e.right) = 0 THEN MathValue(e.left)
            ELSE TruncatedQuotient(MathValue(e.left), MathValue(e.right))

\* no step of the evaluation overflows isize or divides by zero
RECURSIVE MathDefined(_)
MathDefined(e) ==
    CASE e.kind = "IntegerLiteral" -> TRUE
      [] e.kind = "Prefix" -> MathDefined(e.right) /\ MathValue(e) \in IntRange
      [] e.kind = "Infix" ->
            /\ MathDefined(e.left) /\ MathDefined(e.right)
            /\ e.operator = "/" => MathValue(e.right) # 0
            /\ MathValue(e) \in IntRange

\* texts of arithmetic expressions with their mathematical values
ArithmeticTexts ==
    { [lexemes |-> <<Ch("-"), Ch("7"), Ch("/"), Ch("2")>>, value |-> -3],
      [lexemes |-> <<Ch("7"), Ch("-"), Ch("3"), Ch("*"), Ch("2")>>, value |-> 1],
      [lexemes |-> <<Ch("("), Ch("7"), Ch("-"), Ch("3"), Ch(")"), Ch("/"), Ch("2")>>, value |-> 2],
      [lexemes |-> <<Ch("7"), Ch("-"), Ch("3"), Ch("/"), Ch("2")>>, value |-> 6],
      [lexemes |-> <<Ch("7"), Ch("-"), Ch("3"), Ch("-"), Ch("2")>>, value |-> 2],
      [lexemes |-> <<Ch("7"), Ch("-"), Ch("("), Ch("3"), Ch("-"), Ch("2"), Ch(")")>>, value |-> 6],
      [lexemes |-> <<Ch("7"), Ch("/"), Ch("2"), Ch("/"), Ch("2")>>, value |-> 1],
      [lexemes |-> <<Ch("-"), Ch("7"), Ch("/"), Ch("2"), Ch("*"), Ch("2")>>, value |-> -6],
      [lexemes |-> <<Ch("-"), Ch("7"), Ch("+"), Ch("2"), Ch("*"), Ch("3")>>, value |-> -1],
      [lexemes |-> <<Ch("-"), Ch("("), Ch("7"), Ch("/"), Ch("2"), Ch(")")>>, value |-> -3] }

\* the programs the parser makes of the texts
ArithmeticTextCases ==
    { [program |-> ParseProgram(Source(t.lexemes)).program, value |-> t.value] :
        t \in ArithmeticTexts }

\* C21: an integer expression of literals, unary `-`, `+ - * /` and parentheses
\* whose evaluation neither overflows nor divides by zero evaluates to
\* Integer(n), n the mathematical value under standard precedence with a
\* division that truncates toward zero (`-7 / 2` is -3)
ArithmeticIsMathematical ==
    (/\ Evaluated
     /\ Len(program.statements) = 1
     /\ program.statements[1].kind = "ExpressionStatement"
     /\ IsArithmetic(program.statements[1].expression)
     /\ MathDefined(program.statements[1].expression))
        => /\ result = Ok(Integer(MathValue(program.statements[1].expression)))
           /\ \A case \in ArithmeticTextCases :
                  program = case.program => result = Ok(Integer(case.value))

\* `-7 / 2`, as the parser reads it, has been evaluated to -3, and the programs
\* of all the texts are among those evaluated
ArithmeticIsMathematicalWitness ==
    /\ pc = "done"
    /\ program = ParseProgram(Source(<<Ch("-"), Ch("7"), Ch("/"), Ch("2")>>)).program
    /\ result = Ok(Integer(-3))
    /\ \A case \in ArithmeticTextCases : case.program \in NestedArithmeticPrograms

\* texts with a brace group at statement position and the programs they are
\* to give: `{ x }`, `{ x; 5; }`, and `if (x) { { x } }`
BraceGroupCases ==
    { [source |-> Source(<<Ch("{"), Ch("x"), Ch("}")>>),
       program |-> Program(<<BlockStatement(<<ExpressionStatement(Identifier("x"))>>)>>)],
      [source |-> Source(<<Ch("{"), Ch("x"), Ch(";"), Ch("5"), Ch(";"), Ch("}")>>),
       program |-> Program(<<BlockStatement(<<ExpressionStatement(Identifier("x")),
                                              ExpressionStatement(IntegerLiteral(5))>>)>>)],
      [source |-> Source(<<KwIf, Ch("("), Ch("x"), Ch(")"), Ch("{"), Ch("{"), Ch("x"), Ch("}"),
                           Ch("}")>>),
       program |-> Program(<<ExpressionStatement(
           IfExpression(Identifier("x"),
                        BlockStatement(<<BlockStatement(
                            <<ExpressionStatement(Identifier("x"))>>)>>),
                        None))>>)] }

\* C23: a brace group `{ statement* }` at statement position, at the top level
\* or inside another block, parses without any parse error to a Block
\* statement that holds the inner statements in source order
BraceGroupIsBlock ==
    pc = "returned" =>
        \A case \in BraceGroupCases :
            source = case.source => /\ parser.errors = <<>>
                                    /\ program = case.program

\* in the tree under the node, the consequence and the alternative of every If
\* and the body of every FunctionLiteral are Block statements; a `let` or a
\* `return` the parser made has no value to look into
RECURSIVE BlocksWhereDue(_)
BlocksWhereDue(node) ==
    CASE node.kind = "LetStatement" -> node.value # None => BlocksWhereDue(node.value)
      [] node.kind = "ReturnStatement" ->
            node.return_value # None => BlocksWhereDue(node.return_value)
      [] node.kind = "BlockStatement" ->
            \A i \in DOMAIN node.statements : BlocksWhereDue(node.statements[i])
      [] node.kind = "ExpressionStatement" -> BlocksWhereDue(node.expression)
      [] node.kind = "Prefix" -> BlocksWhereDue(node.right)
      [] node.kind = "Infix" -> BlocksWhereDue(node.left) /\ BlocksWhereDue(node.right)
      [] node.kind = "If" ->
            /\ BlocksWhereDue(node.condition)
            /\ node.consequence.kind = "BlockStatement"
            /\ BlocksWhereDue(node.consequence)
            /\ node.alternative # None =>
                   /\ node.alternative[1].kind = "BlockStatement"
                   /\ BlocksWhereDue(node.alternative[1])
      [] node.kind = "FunctionLiteral" ->
            node.body.kind = "BlockStatement" /\ BlocksWhereDue(node.body)
      [] node.kind = "Call" ->
            /\ BlocksWhereDue(node.function)
            /\ \A i \in DOMAIN node.arguments : BlocksWhereDue(node.arguments[i])
      [] OTHER -> TRUE

\* C25: in every Program the parser returns, for an input with or without
\* errors, the consequence and the alternative (when present) of every If are
\* Block statements, and the body of every FunctionLiteral is a Block statement
IfAndFunctionHoldBlocks ==
    \A i \in DOMAIN program.statements : BlocksWhereDue(program.statements[i])

\* a text with an error was parsed to a program with an If that has an
\* alternative, or with a function literal
IfAndFunctionHoldBlocksWitness ==
    /\ pc = "returned"
    /\ parser.errors # <<>>
    /\ \E i \in DOMAIN program.statements :
           /\ program.statements[i].kind = "ExpressionStatement"
           /\ \/ /\ program.statements[i].expression.kind = "If"
                 /\ program.statements[i].expression.alternative # None
                 /\ program.statements[i].expression.alternative[1].statements # <<>>
              \/ /\ program.statements[i].expression.kind = "FunctionLiteral"
                 /\ program.statements[i].expression.body.statements # <<>>

\* the step is a call of expect_peek
IsExpectPeekStep == pc = "parsing" /\ Len(tokens') = Len(tokens) + 1

\* C26: expect_peek(tok): when the peek token equals tok, current and peek
\* advance by exactly one token and the error list is unchanged; otherwise
\* current and peek are unchanged, exactly one message naming the expected
\* token and the actual peek token is appended to the error list, and false
\* is returned
ExpectPeekAdvancesOrReports ==
    [][IsExpectPeekStep =>
          IF parser.peek_token = tokens'[Len(tokens')]
          THEN /\ pc' # "aborted"
               /\ result'.ok
               /\ parser'.current_token = parser.peek_token
               /\ parser'.peek_token = NextToken(parser.lexer).token
               /\ parser'.lexer = NextToken(parser.lexer).l
               /\ parser'.errors = parser.errors
          ELSE /\ ~result'.ok
               /\ parser'.current_token = parser.current_token
               /\ parser'.peek_token = parser.peek_token
               /\ parser'.lexer = parser.lexer
               /\ parser'.errors =
                      Append(parser.errors,
                             [form |-> "expected next token",
                              expected |-> tokens'[Len(tokens')],
                              got |-> parser.peek_token])]_vars


(***************************************************************************)
(* The bindings an Environment holds: its own store, the environments its  *)
(* Function values captured, and its outer environment.                    *)
(***************************************************************************)
RECURSIVE HoldsWrapper(_)
HoldsWrapper(e) ==
    \/ \E n \in DOMAIN e.store :
          \/ e.store[n].tag = "ReturnValue"
          \/ e.store[n].tag = "Function" /\ HoldsWrapper(e.store[n].env)
    \/ e.outer # None /\ HoldsWrapper(e.outer[1])

\* C27: after any sequence of eval calls on an Environment no binding of it,
\* nor of an environment one of its functions captured, nor of an outer
\* environment, is a ReturnValue
NoWrapperIsBound == ~HoldsWrapper(env)


\* the node holds a Call expression
RECURSIVE HasCall(_)
HasCall(node) ==
    CASE node.kind = "LetStatement" -> HasCall(node.value)
      [] node.kind = "ReturnStatement" -> HasCall(node.return_value)
      [] node.kind = "BlockStatement" ->
            \E i \in DOMAIN node.statements : HasCall(node.statements[i])
      [] node.kind = "ExpressionStatement" -> HasCall(node.expression)
      [] node.kind = "Prefix" -> HasCall(node.right)
      [] node.kind = "Infix" -> HasCall(node.left) \/ HasCall(node.right)
      [] node.kind = "If" ->
            \/ HasCall(node.condition)
            \/ HasCall(node.consequence)
            \/ node.alternative # None /\ HasCall(node.alternative[1])
      [] node.kind = "FunctionLiteral" -> HasCall(node.body)
      [] node.kind = "Call" -> TRUE
      [] OTHER -> FALSE

CallFree(line) == \A i \in DOMAIN line.statements : ~HasCall(line.statements[i])

\* no node was evaluated twice: no two events of the trace are the same
EachNodeAtMostOnce == \A i, j \in Events : trace[i] = trace[j] => i = j

\* C28: the evaluation of a program without a Call expression ends with a
\* value or an error, and has evaluated each node of the AST at most once
CallFreeEvaluationEnds ==
    pc # "start" /\ CallFree(program) =>
        /\ result.tag \in {"Ok", "Err"}
        /\ EachNodeAtMostOnce

\* the second half alone: each node of a call-free program at most once
CallFreeEvaluatesOnce ==
    pc # "start" /\ CallFree(program) => EachNodeAtMostOnce

====
